---- MODULE Spec2Model ----
(***************************************************************************)
(* dir-tree: the tree builder (tree/tree.go), the entry points that call   *)
(* it (dirtree/dirtree.go, cmd/main.go) and the formatter                  *)
(* (formatter/formatter.go), as a state machine; and the configuration     *)
(* (configs/cfg.go): the methods of Config and FormatCfg, and the          *)
(* ConfigBuilder with the arrays its slices live in.                       *)
(*                                                                         *)
(* Strings are sequences of one-character strings, so that prefix, suffix  *)
(* and extension computations are real computations.  A pointer that may   *)
(* be nil is a sequence of length 0 (nil) or 1.  An error is a string, ""  *)
(* being the nil error.                                                    *)
(***************************************************************************)
EXTENDS Integers, Sequences, FiniteSets, TLC

VARIABLES
    fs,        \* the file system the program runs on (never written)
    caller,    \* which entry point is running: "", "BuildTree", "Generate", "main"
    cfg,       \* the configs.Config handed to Generate / parsed by main
    opts,      \* the tree.BuildOptions of the running BuildTree call
    pc,        \* "idle", "walking", "built", "done", "fatal"
    stack,     \* the active buildTreeRecursive calls, root call first
    result,    \* what BuildTree returned: [tree, err]
    ops,       \* the file system operations performed so far, in order
    filtered,  \* the last value createFilteredNode returned to a formatter
    output,    \* what Format returned (or that it panicked)
    config,    \* the Config whose methods are called
    validation,   \* what config.Validate() returned
    outputPath,   \* what config.Format.GetOutputPath() returned, and for which path
    heap,      \* the arrays behind the []string slices, by address
    builder,   \* the Config inside the ConfigBuilder (b.config)
    snapshots, \* the Configs Build has returned, as the caller holds them
    expected,  \* for each of them, the values it was returned with, amended by
               \* what the caller itself stored in it since
    intended,  \* the values the With* and Add* calls so far ask the builder to hold
    handedBack,   \* a slice of a built Config was passed to a With* method
    calls      \* the number of calls and assignments so far

methodVars == <<config, validation, outputPath>>
builderVars == <<heap, builder, snapshots, expected, intended, handedBack, calls>>
libraryVars == <<methodVars, builderVars>>

vars == <<fs, caller, cfg, opts, pc, stack, result, ops, filtered, output,
          config, validation, outputPath,
          heap, builder, snapshots, expected, intended, handedBack, calls>>

----------------------------------------------------------------------------
(* Bounds of the model *)

\* the largest MaxDepth option tried (the smallest is -2, below Validate's -1)
MaxDepthOpt == 2

\* the recursion depth at which the model stops following an endless walk
MaxStack == 5

\* the number of calls on a ConfigBuilder and assignments to the Configs it
\* built that one run makes
MaxCalls == 4

----------------------------------------------------------------------------
(* Strings *)

Nil == <<>>
Some(x) == <<x>>

\* a byte that is not valid UTF-8 (file names are byte strings), and U+FFFD,
\* the character the Go libraries put in its place
BadByte == "0xFF"
ReplacementChar == "U+FFFD"

UpperChars == <<"A","B","C","D","E","F","G","H","I","J","K","L","M",
                "N","O","P","Q","R","S","T","U","V","W","X","Y","Z">>
LowerChars == <<"a","b","c","d","e","f","g","h","i","j","k","l","m",
                "n","o","p","q","r","s","t","u","v","w","x","y","z">>

ToLowerChar(c) ==
    IF c = BadByte THEN ReplacementChar
    ELSE IF \E i \in 1..Len(UpperChars) : UpperChars[i] = c
    THEN LowerChars[CHOOSE i \in 1..Len(UpperChars) : UpperChars[i] = c]
    ELSE c

\* strings.ToLower
ToLower(s) == [i \in 1..Len(s) |-> ToLowerChar(s[i])]

\* strings.HasPrefix
HasPrefix(s, p) == Len(s) >= Len(p) /\ SubSeq(s, 1, Len(p)) = p

\* s[i:] of Go, with a 0-based i
From(s, i) == SubSeq(s, i + 1, Len(s))

\* filepath.Ext: the suffix that starts at the last dot of the last path
\* element, "" when that element has no dot
Ext(path) ==
    LET dots == {i \in 1..Len(path) :
                    /\ path[i] = "."
                    /\ \A j \in i..Len(path) : path[j] # "/"}
    IN  IF dots = {} THEN <<>>
        ELSE LET last == CHOOSE i \in dots : \A j \in dots : j <= i
             IN  SubSeq(path, last, Len(path))

\* the base name os.Stat reports for a path (no trailing separators here)
Base(path) ==
    LET seps == {i \in 1..Len(path) : path[i] = "/"}
    IN  IF seps = {} THEN path
        ELSE LET last == CHOOSE i \in seps : \A j \in seps : j <= i
             IN  IF last = Len(path) THEN path ELSE SubSeq(path, last + 1, Len(path))

\* filepath.Join(dir, name) for a clean dir and a plain entry name: Clean
\* drops the "." element and does not double the separator after "/"
Join(dir, name) ==
    IF dir = <<".">> THEN name
    ELSE IF dir # <<>> /\ dir[Len(dir)] = "/" THEN dir \o name
    ELSE dir \o <<"/">> \o name

----------------------------------------------------------------------------
(* regexp.MatchString, for the patterns built from literal characters,     *)
(* ".", a postfix "*", a leading "^" and a trailing "$".  A pattern with   *)
(* an unclosed "[" or a "*" that has nothing to repeat does not compile.   *)

regexpCompiles(re) ==
    /\ \A i \in 1..Len(re) : re[i] # "["
    /\ ~(Len(re) >= 1 /\ re[1] = "*")
    /\ ~(Len(re) >= 2 /\ re[1] = "^" /\ re[2] = "*")
    /\ \A i \in 1..(Len(re) - 1) : ~(re[i] = "*" /\ re[i + 1] = "*")

RECURSIVE matchHere(_, _)
matchHere(re, text) ==
    IF re = <<>> THEN TRUE
    ELSE IF Len(re) >= 2 /\ re[2] = "*"
    THEN \E k \in 0..Len(text) :
            /\ \A j \in 1..k : re[1] = "." \/ re[1] = text[j]
            /\ matchHere(From(re, 2), From(text, k))
    ELSE IF re = <<"$">> THEN text = <<>>
    ELSE IF text # <<>> /\ (re[1] = "." \/ re[1] = text[1])
    THEN matchHere(Tail(re), Tail(text))
    ELSE FALSE

\* the pattern matches somewhere in the text (an unanchored search)
regexpMatches(re, text) ==
    IF re # <<>> /\ re[1] = "^"
    THEN matchHere(Tail(re), text)
    ELSE \E i \in 0..Len(text) : matchHere(re, From(text, i))

\* regexp.MatchString: [matched, err]
MatchString(pattern, s) ==
    IF regexpCompiles(pattern)
    THEN [matched |-> regexpMatches(pattern, s), err |-> ""]
    ELSE [matched |-> FALSE, err |-> "syntax"]

----------------------------------------------------------------------------
(* tree/tree.go: the helpers of the walk *)

Directory == "directory"
File == "file"
Symlink == "symlink"

\* faulty variant: the loop over the patterns ends at the first one that does not
\* compile
isExcludedPathStopsAtError(path, excludePatterns) ==
    \E i \in 1..Len(excludePatterns) :
        /\ \A j \in 1..i : MatchString(excludePatterns[j], path).err = ""
        /\ MatchString(excludePatterns[i], path).matched

\* faulty variant: a pattern that does not compile counts as a match
isExcludedPathFailsClosed(path, excludePatterns) ==
    \E i \in 1..Len(excludePatterns) :
        LET m == MatchString(excludePatterns[i], path)
        IN  m.err # "" \/ m.matched

\* isExcludedPath returns true when some pattern compiles and matches
isExcludedPath(path, excludePatterns) ==
    \E i \in 1..Len(excludePatterns) :
        LET m == MatchString(excludePatterns[i], path)
        IN  m.err = "" /\ m.matched

\* faulty variant: the extension of the path is compared as it is written
isExcludedTypeCaseSensitive(path, excludeTypes) ==
    \E i \in 1..Len(excludeTypes) : ToLower(excludeTypes[i]) = Ext(path)

\* isExcludedType compares the lower-cased extension of the path with each
\* lower-cased entry of the list
isExcludedType(path, excludeTypes) ==
    LET ext == ToLower(Ext(path))
    IN  \E i \in 1..Len(excludeTypes) : ToLower(excludeTypes[i]) = ext

\* faulty variant: a dot anywhere in the name counts
isHiddenFileAnyDot(name) == \E i \in 1..Len(name) : name[i] = "."

isHiddenFile(name) == HasPrefix(name, <<".">>)

----------------------------------------------------------------------------
(* The file system.  An inode is a directory (with its entries in          *)
(* enumeration order and whether it can be listed), a regular file or a    *)
(* symbolic link (target 0: the link dangles).  An entry whose infoOK is   *)
(* false is one whose DirEntry.Info() fails (it vanished after the         *)
(* listing).  roots are the paths a caller may pass as the root.           *)

Dir(entries, readable) ==
    [kind |-> "dir", size |-> 0, entries |-> entries, target |-> 0, readable |-> readable]
Reg(size) ==
    [kind |-> "file", size |-> size, entries |-> <<>>, target |-> 0, readable |-> TRUE]
Link(target, size) ==
    [kind |-> "link", size |-> size, entries |-> <<>>, target |-> target, readable |-> TRUE]
Ent(name, ino) == [name |-> name, ino |-> ino, infoOK |-> TRUE]
Gone(name, ino) == [name |-> name, ino |-> ino, infoOK |-> FALSE]

\* r/{a.txt, b.GO, sub/{c.go, in/{.h}}}
PlainFS ==
    [inodes |-> <<
        Dir(<<Ent(<<"a",".","t","x","t">>, 2), Ent(<<"b",".","G","O">>, 3),
              Ent(<<"s","u","b">>, 4)>>, TRUE),
        Reg(10),
        Reg(5),
        Dir(<<Ent(<<"c",".","g","o">>, 5), Ent(<<"i","n">>, 6)>>, TRUE),
        Reg(7),
        Dir(<<Ent(<<".","h">>, 7)>>, TRUE),
        Reg(0) >>,
     roots |-> {[path |-> <<"r">>, ino |-> 1], [path |-> <<".">>, ino |-> 1]}]

\* r/{d/{f.go}, ld -> d, lf.go -> x.go/n, bad -> (nothing), x.go/{n}, ln -> d/f.go}:
\* one link carries an extension its target lacks, one lacks the extension
\* its target carries
LinkFS ==
    [inodes |-> <<
        Dir(<<Ent(<<"d">>, 2), Ent(<<"l","d">>, 3), Ent(<<"l","f",".","g","o">>, 4),
              Ent(<<"b","a","d">>, 5), Ent(<<"x",".","g","o">>, 6),
              Ent(<<"l","n">>, 9)>>, TRUE),
        Dir(<<Ent(<<"f",".","g","o">>, 7)>>, TRUE),
        Link(2, 1),
        Link(8, 6),
        Link(0, 3),
        Dir(<<Ent(<<"n">>, 8)>>, TRUE),
        Reg(9),
        Reg(1),
        Link(7, 4) >>,
     roots |-> {[path |-> <<"r">>, ino |-> 1],
                [path |-> <<"r","/","d","/","f",".","g","o">>, ino |-> 7]}]

\* r/{<byte 0xFF>k, up -> r}: a symlink cycle, beside a file whose name is not
\* valid UTF-8; the directory is also reached as ".."
CycleFS ==
    [inodes |-> <<
        Dir(<<Ent(<<BadByte, "k">>, 2), Ent(<<"u","p">>, 3)>>, TRUE),
        Reg(2),
        Link(1, 2) >>,
     roots |-> {[path |-> <<"r">>, ino |-> 1], [path |-> <<".", ".">>, ino |-> 1]}]

\* r/{.f.txt, gone (no metadata), p/{q/ (cannot be listed), w/}, z}
ErrorFS ==
    [inodes |-> <<
        Dir(<<Ent(<<".","f",".","t","x","t">>, 2), Gone(<<"g","o","n","e">>, 3), Ent(<<"p">>, 4),
              Ent(<<"z">>, 6)>>, TRUE),
        Reg(4),
        Reg(1),
        Dir(<<Ent(<<"q">>, 5), Ent(<<"w">>, 7)>>, TRUE),
        Dir(<<>>, FALSE),
        Reg(2),
        Dir(<<>>, TRUE) >>,
     roots |-> {[path |-> <<"r">>, ino |-> 1],
                [path |-> <<"r","/","p","/","q">>, ino |-> 5],
                [path |-> <<"n","o">>, ino |-> 0]}]

FileSystems == {PlainFS, LinkFS, CycleFS, ErrorFS}

\* the inode a chain of links ends at, 0 when it dangles or loops
RECURSIVE ResolveFrom(_, _, _)
ResolveFrom(f, ino, hops) ==
    IF ino = 0 \/ hops > Len(f.inodes) THEN 0
    ELSE IF f.inodes[ino].kind = "link"
    THEN ResolveFrom(f, f.inodes[ino].target, hops + 1)
    ELSE ino

\* filepath.EvalSymlinks followed by os.Stat, on the inode of the path
Resolve(f, ino) == ResolveFrom(f, ino, 0)

\* os.FileInfo as Lstat gives it (DirEntry.Info): a link is reported as a link
Lstat(f, name, ino) ==
    [name  |-> name,
     isDir |-> f.inodes[ino].kind = "dir",
     isSymlink |-> f.inodes[ino].kind = "link",
     size  |-> f.inodes[ino].size,
     ino   |-> ino]

\* os.Stat: follows links, and names the entry by the base name of the path
Stat(f, path, ino) == Lstat(f, Base(path), Resolve(f, ino))

\* one file system operation of the log: which, on which path, and whether it
\* succeeded
Op(name, path, ok) == [op |-> name, path |-> path, ok |-> ok]

----------------------------------------------------------------------------
(* tree/tree.go: Node, BuildOptions and the recursive walk.  Each active   *)
(* call of buildTreeRecursive is a frame of the stack; its phase is        *)
(* "enter" (called, nothing done yet), "loop" (iterating the entries, idx  *)
(* being the next one) or "ret" (returning rnode, rerr to its caller).     *)

ZeroNode ==
    [Name |-> <<>>, Path |-> <<>>, Type |-> "", Size |-> 0,
     Children |-> <<>>, IsHidden |-> FALSE]

ZeroOptions ==
    [Path |-> <<>>, MaxDepth |-> 0, ExcludePaths |-> <<>>, ExcludeTypes |-> <<>>,
     IncludeFiles |-> FALSE, FollowLinks |-> FALSE]

NoResult == [tree |-> Nil, err |-> ""]

\* one call of buildTreeRecursive; links is the number of symbolic links
\* among the components of currentPath
Frame(path, info, depth, links) ==
    [path |-> path, info |-> info, depth |-> depth, links |-> links,
     phase |-> "enter", node |-> ZeroNode, entries |-> <<>>, idx |-> 1,
     rnode |-> Nil, rerr |-> ""]

Returning(fr, node, err) == [fr EXCEPT !.phase = "ret", !.rnode = node, !.rerr = err]

\* faulty variant: the depth limit taken one level too deep
depthExceededOneLate(o, currentDepth) ==
    o.MaxDepth # -1 /\ currentDepth > o.MaxDepth + 1

\* faulty variant: a call at depth MaxDepth is cut off already
depthExceededAtLimit(o, currentDepth) ==
    o.MaxDepth # -1 /\ currentDepth >= o.MaxDepth

\* the depth limit: MaxDepth -1 means no limit
depthExceeded(o, currentDepth) == o.MaxDepth # -1 /\ currentDepth > o.MaxDepth

\* faulty variant: a link is resolved whether or not FollowLinks is set
classifyAlwaysFollows(f, o, path, info) ==
    IF info.isDir
    THEN [Type |-> Directory, Size |-> 0, ops |-> <<>>]
    ELSE IF info.isSymlink
    THEN LET target == Resolve(f, info.ino)
         IN  IF target = 0
             THEN [Type |-> Symlink, Size |-> info.size,
                   ops |-> <<Op("EvalSymlinks", path, FALSE)>>]
             ELSE IF f.inodes[target].kind = "dir"
             THEN [Type |-> Directory, Size |-> 0,
                   ops |-> <<Op("EvalSymlinks", path, TRUE), Op("Stat", path, TRUE)>>]
             ELSE [Type |-> File, Size |-> f.inodes[target].size,
                   ops |-> <<Op("EvalSymlinks", path, TRUE), Op("Stat", path, TRUE)>>]
    ELSE [Type |-> File, Size |-> info.size, ops |-> <<>>]

\* faulty variant: a link resolved to a file keeps the size of the link
classifyKeepsLinkSize(f, o, path, info) ==
    IF info.isDir
    THEN [Type |-> Directory, Size |-> 0, ops |-> <<>>]
    ELSE IF info.isSymlink
    THEN IF ~o.FollowLinks
         THEN [Type |-> Symlink, Size |-> info.size, ops |-> <<>>]
         ELSE LET target == Resolve(f, info.ino)
              IN  IF target = 0
                  THEN [Type |-> Symlink, Size |-> info.size,
                        ops |-> <<Op("EvalSymlinks", path, FALSE)>>]
                  ELSE IF f.inodes[target].kind = "dir"
                  THEN [Type |-> Directory, Size |-> 0,
                        ops |-> <<Op("EvalSymlinks", path, TRUE), Op("Stat", path, TRUE)>>]
                  ELSE [Type |-> File, Size |-> info.size,
                        ops |-> <<Op("EvalSymlinks", path, TRUE), Op("Stat", path, TRUE)>>]
    ELSE [Type |-> File, Size |-> info.size, ops |-> <<>>]

\* the type and size of a node, and the file system operations spent on it
classify(f, o, path, info) ==
    IF info.isDir
    THEN [Type |-> Directory, Size |-> 0, ops |-> <<>>]
    ELSE IF info.isSymlink
    THEN IF ~o.FollowLinks
         THEN [Type |-> Symlink, Size |-> info.size, ops |-> <<>>]
         ELSE LET target == Resolve(f, info.ino)
              IN  IF target = 0
                  THEN [Type |-> Symlink, Size |-> info.size,
                        ops |-> <<Op("EvalSymlinks", path, FALSE)>>]
                  ELSE IF f.inodes[target].kind = "dir"
                  THEN [Type |-> Directory, Size |-> 0,
                        ops |-> <<Op("EvalSymlinks", path, TRUE), Op("Stat", path, TRUE)>>]
                  ELSE [Type |-> File, Size |-> f.inodes[target].size,
                        ops |-> <<Op("EvalSymlinks", path, TRUE), Op("Stat", path, TRUE)>>]
    ELSE [Type |-> File, Size |-> info.size, ops |-> <<>>]

\* faulty variant: the path is matched against the wrong list of the options
pathExcludedByTypes(o, path) == isExcludedPath(path, o.ExcludeTypes)

\* the path exclusion: the current path against the ExcludePaths patterns
pathExcluded(o, path) == isExcludedPath(path, o.ExcludePaths)

\* faulty variant: the type exclusion applies whatever the node was classified as
typeExcludedAnyType(o, path, type) == isExcludedType(path, o.ExcludeTypes)

\* the type exclusion applies to nodes classified File only
typeExcluded(o, path, type) == type = File /\ isExcludedType(path, o.ExcludeTypes)

\* the most symbolic links the operating system follows while it looks up
\* one path (40 on Linux, where the 41st is refused with ELOOP), scaled down
LinkLimit == 3

\* faulty variant: the operating system follows any number of links
tooManyLinksNever(links) == FALSE

\* the operating system refuses to look up a path through that many links
tooManyLinks(links) == links > LinkLimit

\* os.ReadDir(currentPath): the listing follows a link at the end of the path
ReadDir(f, info, links) ==
    LET d == Resolve(f, info.ino)
    IN  IF tooManyLinks(links)
        THEN [entries |-> <<>>, err |-> "readdir"]
        ELSE IF d # 0 /\ f.inodes[d].kind = "dir" /\ f.inodes[d].readable
        THEN [entries |-> f.inodes[d].entries, err |-> ""]
        ELSE [entries |-> <<>>, err |-> "readdir"]

\* faulty variant: the node is classified before the path exclusion is tested
enterFrameClassifiesFirst(f, o, fr) ==
    IF depthExceeded(o, fr.depth)
    THEN [frame |-> Returning(fr, Nil, ""), ops |-> <<>>]
    ELSE LET c == classify(f, o, fr.path, fr.info)
             node == [Name |-> fr.info.name, Path |-> fr.path, Type |-> c.Type,
                      Size |-> c.Size, Children |-> <<>>,
                      IsHidden |-> isHiddenFile(fr.info.name)]
         IN  IF pathExcluded(o, fr.path)
             THEN [frame |-> Returning(fr, Nil, ""), ops |-> c.ops]
             ELSE IF typeExcluded(o, fr.path, c.Type)
             THEN [frame |-> Returning([fr EXCEPT !.node = node], Nil, ""),
                   ops |-> c.ops]
             ELSE IF c.Type # Directory
             THEN [frame |-> Returning([fr EXCEPT !.node = node], Some(node), ""),
                   ops |-> c.ops]
             ELSE LET rd == ReadDir(f, fr.info, fr.links)
                      read == c.ops \o <<Op("ReadDir", fr.path, rd.err = "")>>
                  IN  IF rd.err # ""
                      THEN [frame |-> Returning([fr EXCEPT !.node = node], Nil, rd.err),
                            ops |-> read]
                      ELSE [frame |-> [fr EXCEPT !.node = node, !.phase = "loop",
                                                 !.entries = rd.entries, !.idx = 1],
                            ops |-> read]

\* buildTreeRecursive from its first line to the start of the loop over the
\* entries: [frame, ops], the frame either returning or ready to iterate
enterFrame(f, o, fr) ==
    IF depthExceeded(o, fr.depth)
    THEN [frame |-> Returning(fr, Nil, ""), ops |-> <<>>]
    ELSE IF pathExcluded(o, fr.path)
    THEN [frame |-> Returning(fr, Nil, ""), ops |-> <<>>]
    ELSE LET c == classify(f, o, fr.path, fr.info)
             node == [Name |-> fr.info.name, Path |-> fr.path, Type |-> c.Type,
                      Size |-> c.Size, Children |-> <<>>,
                      IsHidden |-> isHiddenFile(fr.info.name)]
         IN  IF typeExcluded(o, fr.path, c.Type)
             THEN [frame |-> Returning([fr EXCEPT !.node = node], Nil, ""),
                   ops |-> c.ops]
             ELSE IF c.Type # Directory
             THEN [frame |-> Returning([fr EXCEPT !.node = node], Some(node), ""),
                   ops |-> c.ops]
             ELSE LET rd == ReadDir(f, fr.info, fr.links)
                      read == c.ops \o <<Op("ReadDir", fr.path, rd.err = "")>>
                  IN  IF rd.err # ""
                      THEN [frame |-> Returning([fr EXCEPT !.node = node], Nil, rd.err),
                            ops |-> read]
                      ELSE [frame |-> [fr EXCEPT !.node = node, !.phase = "loop",
                                                 !.entries = rd.entries, !.idx = 1],
                            ops |-> read]

\* faulty variant: IncludeFiles is not consulted, every non-directory is skipped
skipEntrySkipsFiles(o, entryInfo) == ~entryInfo.isDir

\* faulty variant: the test of the entry's kind is inverted
skipEntryInverted(o, entryInfo) == ~o.IncludeFiles /\ entryInfo.isDir

\* the loop skips an entry that is not a directory when files are left out
skipEntry(o, entryInfo) == ~o.IncludeFiles /\ ~entryInfo.isDir

\* faulty variant: an entry whose metadata cannot be read aborts the call
infoFailedAborts(parent) == Returning(parent, Nil, "info")

\* the loop goes on to the next entry when entry.Info() fails
infoFailed(parent) == [parent EXCEPT !.idx = @ + 1]

\* faulty variant: the caller puts a child in front of the earlier ones
afterChildPrepends(parent, child, err) ==
    IF err # ""
    THEN Returning(parent, Nil, err)
    ELSE IF child # Nil
    THEN [parent EXCEPT !.node.Children = <<child[1]>> \o @, !.idx = @ + 1]
    ELSE [parent EXCEPT !.idx = @ + 1]

\* faulty variant: the caller drops the error of a recursive call and goes on
afterChildKeepsGoing(parent, child, err) ==
    IF child # Nil /\ err = ""
    THEN [parent EXCEPT !.node.Children = Append(@, child[1]), !.idx = @ + 1]
    ELSE [parent EXCEPT !.idx = @ + 1]

\* what the caller does with the (child, err) a recursive call returned
afterChild(parent, child, err) ==
    IF err # ""
    THEN Returning(parent, Nil, err)
    ELSE IF child # Nil
    THEN [parent EXCEPT !.node.Children = Append(@, child[1]), !.idx = @ + 1]
    ELSE [parent EXCEPT !.idx = @ + 1]

\* faulty variant: an empty node is returned next to the error
accessErrorWithNode == [tree |-> Some(ZeroNode), err |-> "access"]

\* what BuildTree returns when os.Stat fails on the root path
accessError == [tree |-> Nil, err |-> "access"]

Top == stack[Len(stack)]
SetTop(fr) == [stack EXCEPT ![Len(stack)] = fr]

\* BuildTree: os.Stat on the root path, then the root call at depth 0
BuildTreeCall(o) ==
    \E r \in fs.roots :
        /\ r.path = o.Path
        /\ opts' = o
        /\ ops' = ops \o <<Op("Stat", o.Path, Resolve(fs, r.ino) # 0)>>
        /\ IF Resolve(fs, r.ino) = 0
           THEN /\ result' = accessError
                /\ stack' = <<>>
                /\ pc' = "built"
           ELSE /\ result' = NoResult
                /\ stack' = <<Frame(o.Path, Stat(fs, o.Path, r.ino), 0, 0)>>
                /\ pc' = "walking"

\* a call of buildTreeRecursive runs up to its loop, or returns
Enter ==
    /\ pc = "walking" /\ stack # <<>> /\ Top.phase = "enter"
    /\ LET e == enterFrame(fs, opts, Top)
       IN  /\ stack' = SetTop(e.frame)
           /\ ops' = ops \o e.ops
    /\ UNCHANGED <<fs, caller, cfg, opts, pc, result, filtered, output, libraryVars>>

\* one iteration of the loop that does not recurse: the entry's metadata
\* cannot be read, or it is a skipped non-directory
LoopSkip ==
    /\ pc = "walking" /\ stack # <<>> /\ Top.phase = "loop"
    /\ Top.idx <= Len(Top.entries)
    /\ LET entry == Top.entries[Top.idx]
           fullPath == Join(Top.path, entry.name)
       IN  /\ \/ ~entry.infoOK
              \/ skipEntry(opts, Lstat(fs, entry.name, entry.ino))
           /\ ops' = ops \o <<Op("Info", fullPath, entry.infoOK)>>
           /\ stack' = SetTop(IF ~entry.infoOK THEN infoFailed(Top)
                                ELSE [Top EXCEPT !.idx = @ + 1])
    /\ UNCHANGED <<fs, caller, cfg, opts, pc, result, filtered, output, libraryVars>>

\* one iteration of the loop that calls buildTreeRecursive for the entry
LoopRecurse ==
    /\ pc = "walking" /\ stack # <<>> /\ Top.phase = "loop"
    /\ Top.idx <= Len(Top.entries)
    /\ Len(stack) < MaxStack
    /\ LET entry == Top.entries[Top.idx]
           entryInfo == Lstat(fs, entry.name, entry.ino)
           fullPath == Join(Top.path, entry.name)
       IN  /\ entry.infoOK
           /\ ~skipEntry(opts, entryInfo)
           /\ ops' = ops \o <<Op("Info", fullPath, TRUE)>>
           /\ stack' = Append(stack, Frame(fullPath, entryInfo, Top.depth + 1,
                                           Top.links + (IF entryInfo.isSymlink THEN 1 ELSE 0)))
    /\ UNCHANGED <<fs, caller, cfg, opts, pc, result, filtered, output, libraryVars>>

\* the loop is over: the call returns its node
LoopEnd ==
    /\ pc = "walking" /\ stack # <<>> /\ Top.phase = "loop"
    /\ Top.idx > Len(Top.entries)
    /\ stack' = SetTop(Returning(Top, Some(Top.node), ""))
    /\ UNCHANGED <<fs, caller, cfg, opts, pc, result, ops, filtered, output, libraryVars>>

\* a call returns to the call that made it
Return ==
    /\ pc = "walking" /\ Len(stack) > 1 /\ Top.phase = "ret"
    /\ LET parent == stack[Len(stack) - 1]
       IN  stack' = SubSeq(stack, 1, Len(stack) - 2)
                        \o <<afterChild(parent, Top.rnode, Top.rerr)>>
    /\ UNCHANGED <<fs, caller, cfg, opts, pc, result, ops, filtered, output, libraryVars>>

\* the root call returns: BuildTree returns what it returned
BuildTreeReturn ==
    /\ pc = "walking" /\ Len(stack) = 1 /\ Top.phase = "ret"
    /\ result' = [tree |-> Top.rnode, err |-> Top.rerr]
    /\ stack' = <<>>
    /\ pc' = "built"
    /\ UNCHANGED <<fs, caller, cfg, opts, ops, filtered, output, libraryVars>>

----------------------------------------------------------------------------
(* formatter/formatter.go.  The bytes an encoder writes are modelled by    *)
(* the document they spell: a value is null, a string, a number, a         *)
(* boolean, an array or an object with its members in struct order.  The   *)
(* indentation changes white space only and is left out.                   *)

contains(slice, item) == \E i \in 1..Len(slice) : slice[i] = item

\* faulty variant: the fields are left out of the node itself, the children are
\* taken over as they are
filteredNodeOfShallow(node, excludeFields) ==
    [Name |-> IF ~contains(excludeFields, "name") THEN node.Name ELSE <<>>,
     Path |-> IF ~contains(excludeFields, "path") THEN node.Path ELSE <<>>,
     Type |-> IF ~contains(excludeFields, "type") THEN node.Type ELSE "",
     Size |-> IF ~contains(excludeFields, "size") THEN node.Size ELSE 0,
     IsHidden |-> IF ~contains(excludeFields, "is_hidden") THEN node.IsHidden ELSE FALSE,
     Children |-> IF ~contains(excludeFields, "children") THEN node.Children ELSE <<>>]

\* the filteredNode for a non-nil node: an excluded field keeps its zero value
RECURSIVE filteredNodeOf(_, _)
filteredNodeOf(node, excludeFields) ==
    [Name |-> IF ~contains(excludeFields, "name") THEN node.Name ELSE <<>>,
     Path |-> IF ~contains(excludeFields, "path") THEN node.Path ELSE <<>>,
     Type |-> IF ~contains(excludeFields, "type") THEN node.Type ELSE "",
     Size |-> IF ~contains(excludeFields, "size") THEN node.Size ELSE 0,
     IsHidden |-> IF ~contains(excludeFields, "is_hidden") THEN node.IsHidden ELSE FALSE,
     Children |-> IF ~contains(excludeFields, "children") /\ node.Children # <<>>
                  THEN [i \in 1..Len(node.Children) |->
                            filteredNodeOf(node.Children[i], excludeFields)]
                  ELSE <<>>]

\* createFilteredNode: nil for a nil node
createFilteredNode(node, excludeFields) ==
    IF node = Nil THEN Nil ELSE Some(filteredNodeOf(node[1], excludeFields))

JNull == [t |-> "null", s |-> <<>>, n |-> 0, b |-> FALSE, keys |-> <<>>, items |-> <<>>]
JStr(s) == [JNull EXCEPT !.t = "str", !.s = s]
JNum(n) == [JNull EXCEPT !.t = "num", !.n = n]
JBool(b) == [JNull EXCEPT !.t = "bool", !.b = b]
JArr(items) == [JNull EXCEPT !.t = "arr", !.items = items]
JObj(keys, items) == [JNull EXCEPT !.t = "obj", !.keys = keys, !.items = items]

\* the string of a FileType
TypeName(t) ==
    IF t = Directory THEN <<"d","i","r","e","c","t","o","r","y">>
    ELSE IF t = File THEN <<"f","i","l","e">>
    ELSE IF t = Symlink THEN <<"s","y","m","l","i","n","k">>
    ELSE <<>>

\* faulty variant: the json tag of IsHidden is spelt as yaml spells the field
NodeKeysMistagged(format) ==
    IF format = "xml" THEN <<"Name", "Path", "Type", "Size", "Children", "IsHidden">>
    ELSE <<"name", "path", "type", "size", "children", "ishidden">>

\* the member names an encoder gives the six fields of tree.Node, which has
\* json tags only: yaml lower-cases the field name, xml keeps it
NodeKeys(format) ==
    IF format = "json" THEN <<"name", "path", "type", "size", "children", "is_hidden">>
    ELSE IF format = "yaml" THEN <<"name", "path", "type", "size", "children", "ishidden">>
    ELSE <<"Name", "Path", "Type", "Size", "Children", "IsHidden">>

\* the fields of a struct an encoder leaves out when they are empty:
\* tree.Node tags size, children and is_hidden omitempty for json only, and
\* xml writes one element per child, so none for an empty list;
\* filteredNode tags all six omitempty for every encoder
OmitsEmpty(format, isFiltered, i) ==
    \/ isFiltered
    \/ format = "json" /\ i \in {4, 5, 6}
    \/ format = "xml" /\ i = 5

\* a string as the marshaller writes it: json and xml coerce the text to valid
\* UTF-8, yaml writes invalid text in a binary form that loses nothing
encodeString(s, format) ==
    IF format = "yaml" THEN s
    ELSE [i \in 1..Len(s) |-> IF s[i] = BadByte THEN ReplacementChar ELSE s[i]]

\* the document for a node (a tree.Node or a filteredNode, the same six fields)
RECURSIVE encodeNode(_, _, _)
encodeNode(node, format, isFiltered) ==
    LET keys == IF isFiltered THEN NodeKeys("json") ELSE NodeKeys(format)
        vals == << JStr(encodeString(node.Name, format)),
                   JStr(encodeString(node.Path, format)),
                   JStr(TypeName(node.Type)),
                   JNum(node.Size),
                   JArr([i \in 1..Len(node.Children) |->
                            encodeNode(node.Children[i], format, isFiltered)]),
                   JBool(node.IsHidden) >>
        empty == << node.Name = <<>>, node.Path = <<>>, node.Type = "",
                    node.Size = 0, node.Children = <<>>, ~node.IsHidden >>
        kept == [i \in 1..6 |-> ~(OmitsEmpty(format, isFiltered, i) /\ empty[i])]
        pick[i \in 0..6] ==
            IF i = 0 THEN <<>>
            ELSE IF kept[i] THEN Append(pick[i - 1], i) ELSE pick[i - 1]
    IN  JObj([j \in 1..Len(pick[6]) |-> keys[pick[6][j]]],
             [j \in 1..Len(pick[6]) |-> vals[pick[6][j]]])

\* what Marshal writes for the data: json and yaml write null for a nil
\* pointer, xml writes nothing
encode(data, format, isFiltered) ==
    IF data = Nil
    THEN IF format = "xml" THEN Nil ELSE Some(JNull)
    ELSE Some(encodeNode(data[1], format, isFiltered))

\* formatJSON, formatYAML, formatXML: [doc, filtered]
formatStructured(node, format, excludeFields) ==
    IF Len(excludeFields) > 0
    THEN LET data == createFilteredNode(node, excludeFields)
         IN  [doc |-> encode(data, format, TRUE),
              filtered |-> [called |-> TRUE, value |-> data]]
    ELSE [doc |-> encode(node, format, FALSE),
          filtered |-> [called |-> FALSE, value |-> Nil]]

\* formatTXT for a non-nil node: its line, then the lines of its children
RECURSIVE formatTXTLines(_, _, _)
formatTXTLines(node, level, excludeFields) ==
    LET line == [level |-> level,
                 prefix |-> IF node.Type = File THEN File
                            ELSE IF node.Type = Symlink THEN Symlink
                            ELSE Directory,
                 name |-> IF ~contains(excludeFields, "name") THEN Some(node.Name) ELSE Nil,
                 size |-> IF ~contains(excludeFields, "size") /\ node.Type = File
                             /\ node.Size > 0
                          THEN Some(node.Size) ELSE Nil,
                 hidden |-> ~contains(excludeFields, "is_hidden") /\ node.IsHidden]
        sub[i \in 0..Len(node.Children)] ==
            IF i = 0 THEN <<>>
            ELSE sub[i - 1] \o formatTXTLines(node.Children[i], level + 1, excludeFields)
    IN  <<line>> \o (IF ~contains(excludeFields, "children")
                     THEN sub[Len(node.Children)] ELSE <<>>)

\* formatTXT reads node.Type first: a nil node is a nil pointer dereference
formatTXT(node, excludeFields) ==
    IF node = Nil
    THEN [status |-> "panic", lines |-> <<>>]
    ELSE [status |-> "ok", lines |-> formatTXTLines(node[1], 0, excludeFields)]

NoFiltered == [called |-> FALSE, value |-> Nil]

NoOutput ==
    [status |-> "", format |-> "", exclude |-> <<>>, doc |-> Nil, lines |-> <<>>]

\* Format: [output, filtered]
Format(node, format, excludeFields) ==
    LET base == [NoOutput EXCEPT !.format = format, !.exclude = excludeFields]
    IN  IF format \in {"json", "yaml", "xml"}
        THEN LET r == formatStructured(node, format, excludeFields)
             IN  [output |-> [base EXCEPT !.status = "ok", !.doc = r.doc],
                  filtered |-> r.filtered]
        ELSE IF format = "txt"
        THEN LET r == formatTXT(node, excludeFields)
             IN  [output |-> [base EXCEPT !.status = r.status, !.lines = r.lines],
                  filtered |-> NoFiltered]
        ELSE [output |-> [base EXCEPT !.status = "error"], filtered |-> NoFiltered]

----------------------------------------------------------------------------
(* The inputs the callers choose from *)

\* ExcludePaths lists: none; a substring before an unparseable pattern; an
\* unparseable pattern before one anchored at the end; the root alone; a dot
\* (any character) before "GO"
PathPatternLists ==
    { <<>>,
      << <<"s","u","b">>, <<"[">> >>,
      << <<"[">>, <<"d","$">> >>,
      << <<"^","r","$">> >>,
      << <<".","G","O">>, <<"u","p","/","u">> >> }

\* ExcludeTypes lists
TypeLists ==
    { <<>>,
      << <<".","g","o">> >>,
      << <<".","T","X","T">>, <<".","h">> >> }

DepthOpts == (-2)..MaxDepthOpt

\* the format selectors: the four of configs/cfg.go and one that is none of them
SupportedFormats == {"json", "yaml", "xml", "txt"}
FormatTypes == SupportedFormats \cup {"csv"}

\* ExcludeNodeFields lists (the second is the default of configs.New)
NodeFieldLists ==
    { <<>>,
      <<"size", "is_hidden", "type", "path">>,
      <<"children">>,
      <<"name">>,
      <<"name", "path", "type", "size", "is_hidden", "children">> }

\* the option values of a call; configs.Config carries the same six fields
\* (its Format is drawn where Format reads it, nothing reads it before)
OptionSets(paths) ==
    [Path : paths, MaxDepth : DepthOpts, ExcludePaths : PathPatternLists,
     ExcludeTypes : TypeLists, IncludeFiles : BOOLEAN, FollowLinks : BOOLEAN]

RootPaths == {r.path : r \in fs.roots}

----------------------------------------------------------------------------
(* configs/cfg.go, dirtree/dirtree.go, cmd/main.go: the entry points *)

\* faulty variant: every negative MaxDepth is refused, -1 with the others
ValidateRefusesUnlimited(c, formatType) ==
    IF c.Path = <<>> THEN "path cannot be empty"
    ELSE IF c.MaxDepth < 0 THEN "max depth cannot be less than -1"
    ELSE IF formatType \notin {"json", "yaml", "xml", "txt"}
    THEN "unsupported output format"
    ELSE ""

\* Config.Validate: the error, "" when the configuration is valid
Validate(c, formatType) ==
    IF c.Path = <<>> THEN "path cannot be empty"
    ELSE IF c.MaxDepth < -1 THEN "max depth cannot be less than -1"
    ELSE IF formatType \notin {"json", "yaml", "xml", "txt"}
    THEN "unsupported output format"
    ELSE ""

\* the BuildOptions that Generate builds from a Config
GenerateOptions(c) ==
    [Path |-> c.Path,
     MaxDepth |-> c.MaxDepth,
     ExcludePaths |-> c.ExcludePaths,
     ExcludeTypes |-> c.ExcludePaths,
     IncludeFiles |-> c.IncludeFiles,
     FollowLinks |-> c.FollowLinks]

\* the BuildOptions that main builds from the parsed Config
MainOptions(c) ==
    [Path |-> c.Path,
     MaxDepth |-> c.MaxDepth,
     ExcludePaths |-> c.ExcludePaths,
     ExcludeTypes |-> c.ExcludePaths,
     IncludeFiles |-> c.IncludeFiles,
     FollowLinks |-> c.FollowLinks]

\* a direct call of tree.BuildTree by a library user
DirectCall ==
    /\ pc = "idle"
    /\ \E o \in OptionSets(RootPaths) : BuildTreeCall(o)
    /\ caller' = "BuildTree"
    /\ UNCHANGED <<fs, cfg, filtered, output, libraryVars>>

\* dirtree.Generate calls BuildTree
GenerateCall ==
    /\ pc = "idle"
    /\ \E c \in OptionSets(RootPaths) :
          /\ cfg' = c
          /\ BuildTreeCall(GenerateOptions(c))
    /\ caller' = "Generate"
    /\ UNCHANGED <<fs, filtered, output, libraryVars>>

\* main: the parsed configuration fails Validate, log.Fatalf ends the process
MainInvalid ==
    /\ pc = "idle"
    /\ \E c \in OptionSets(RootPaths \cup {<<>>}), t \in FormatTypes :
          /\ Validate(c, t) # ""
          /\ cfg' = c
    /\ caller' = "main"
    /\ pc' = "fatal"
    /\ UNCHANGED <<fs, opts, stack, result, ops, filtered, output, libraryVars>>

\* main: the parsed configuration passes Validate, main calls BuildTree
MainCall ==
    /\ pc = "idle"
    /\ \E c \in OptionSets(RootPaths \cup {<<>>}), t \in FormatTypes :
          /\ Validate(c, t) = ""
          /\ cfg' = c
          /\ BuildTreeCall(MainOptions(c))
    /\ caller' = "main"
    /\ UNCHANGED <<fs, filtered, output, libraryVars>>

\* Generate returns (nil, err) when BuildTree failed
GenerateFail ==
    /\ pc = "built" /\ caller = "Generate" /\ result.err # ""
    /\ output' = [NoOutput EXCEPT !.status = "error"]
    /\ pc' = "done"
    /\ UNCHANGED <<fs, caller, cfg, opts, stack, result, ops, filtered, libraryVars>>

\* Generate hands the root to Format and returns what Format returns
GenerateFormat ==
    /\ pc = "built" /\ caller = "Generate" /\ result.err = ""
    /\ \E t \in FormatTypes, e \in NodeFieldLists :
          LET f == Format(result.tree, t, e)
          IN  /\ output' = f.output
              /\ filtered' = f.filtered
    /\ pc' = "done"
    /\ UNCHANGED <<fs, caller, cfg, opts, stack, result, ops, libraryVars>>

\* main ends with log.Fatalf when BuildTree failed
MainFatal ==
    /\ pc = "built" /\ caller = "main" /\ result.err # ""
    /\ pc' = "fatal"
    /\ UNCHANGED <<fs, caller, cfg, opts, stack, result, ops, filtered, output, libraryVars>>

\* main hands the root to Format; the selector passed Validate
MainFormat ==
    /\ pc = "built" /\ caller = "main" /\ result.err = ""
    /\ \E t \in SupportedFormats, e \in NodeFieldLists :
          LET f == Format(result.tree, t, e)
          IN  /\ output' = f.output
              /\ filtered' = f.filtered
    /\ pc' = "done"
    /\ UNCHANGED <<fs, caller, cfg, opts, stack, result, ops, libraryVars>>

----------------------------------------------------------------------------
(* configs: the methods of Config and FormatCfg *)

\* the text of an OutputFormat
FormatChars(t) ==
    IF t = "json" THEN <<"j","s","o","n">>
    ELSE IF t = "yaml" THEN <<"y","a","m","l">>
    ELSE IF t = "xml" THEN <<"x","m","l">>
    ELSE IF t = "txt" THEN <<"t","x","t">>
    ELSE IF t = "csv" THEN <<"c","s","v">>
    ELSE IF t = "JSON" THEN <<"J","S","O","N">>
    ELSE <<>>

\* strings.EqualFold
EqualFold(s, t) == ToLower(s) = ToLower(t)

\* faulty variant: the end of the path is compared as it is written
hasExtensionCaseSensitive(path, ext) ==
    IF Len(path) < Len(ext) THEN FALSE
    ELSE From(path, Len(path) - Len(ext)) = ext

\* hasExtension: the last len(ext) characters of the path equal ext, letter
\* case aside
hasExtension(path, ext) ==
    IF Len(path) < Len(ext) THEN FALSE
    ELSE EqualFold(From(path, Len(path) - Len(ext)), ext)

\* FormatCfg.GetOutputPath
GetOutputPath(f) ==
    IF f.OutputPath = <<>> THEN <<>>
    ELSE LET ext == <<".">> \o FormatChars(f.Type)
         IN  IF ~hasExtension(f.OutputPath, ext) THEN f.OutputPath \o ext
             ELSE f.OutputPath

NoValidation == [called |-> FALSE, err |-> ""]
NoOutputPath == [called |-> FALSE, again |-> FALSE, of |-> <<>>, value |-> <<>>]

\* the tree the formatter is handed when only its selector matters
OneNode == [ZeroNode EXCEPT !.Name = <<"r">>, !.Path = <<"r">>, !.Type = Directory]

\* the selectors a Config may carry: those of FormatTypes, none, and json in
\* capitals
ConfigFormatTypes == FormatTypes \cup {"", "JSON"}

\* the output paths a FormatCfg may carry: none; without extension; with the
\* extension of a format, in small and in capital letters; with another
\* extension; the extension alone; shorter than the extension; below a
\* directory; ending in a dot
OutputPaths ==
    { <<>>,
      <<"o","u","t">>,
      <<"o","u","t",".","j","s","o","n">>,
      <<"o","u","t",".","J","S","O","N">>,
      <<"o","u","t",".","t","x","t">>,
      <<".","j","s","o","n">>,
      <<"j","s","o","n">>,
      <<"d","/","o",".","y","a","m","l">>,
      <<"o",".">> }

\* the fields of a Config that Validate and GetOutputPath read
Configs ==
    [Path : {<<>>, <<"r">>},
     MaxDepth : DepthOpts,
     Format : [Type : ConfigFormatTypes, OutputPath : OutputPaths]]

\* c.Validate()
ValidateCall ==
    /\ ~validation.called
    /\ validation' = [called |-> TRUE, err |-> Validate(config, config.Format.Type)]
    /\ UNCHANGED <<fs, caller, cfg, opts, pc, stack, result, ops, filtered, output,
                   config, outputPath, builderVars>>

\* formatter.Format(tree, &c.Format) on a tree of one node
FormatCall ==
    /\ output = NoOutput
    /\ LET f == Format(Some(OneNode), config.Format.Type, <<>>)
       IN  /\ output' = f.output
           /\ filtered' = f.filtered
    /\ UNCHANGED <<fs, caller, cfg, opts, pc, stack, result, ops, methodVars, builderVars>>

\* c.Format.GetOutputPath()
GetOutputPathCall ==
    /\ ~outputPath.called
    /\ outputPath' = [called |-> TRUE, again |-> FALSE,
                      of |-> config.Format.OutputPath,
                      value |-> GetOutputPath(config.Format)]
    /\ UNCHANGED <<fs, caller, cfg, opts, pc, stack, result, ops, filtered, output,
                   config, validation, builderVars>>

\* c.Format.OutputPath = c.Format.GetOutputPath(), then GetOutputPath() again
GetOutputPathAgain ==
    /\ outputPath.called /\ ~outputPath.again
    /\ config' = [config EXCEPT !.Format.OutputPath = outputPath.value]
    /\ outputPath' = [called |-> TRUE, again |-> TRUE,
                      of |-> outputPath.value,
                      value |-> GetOutputPath(config'.Format)]
    /\ UNCHANGED <<fs, caller, cfg, opts, pc, stack, result, ops, filtered, output,
                   validation, builderVars>>

----------------------------------------------------------------------------
(* configs: the ConfigBuilder.  A []string is a view [arr, len] of an     *)
(* array of the heap, its capacity the length of that array; arr = 0 is    *)
(* a slice without an array (nil, or the empty literal).                   *)

NoSlice == [arr |-> 0, len |-> 0]

\* cap(s)
Cap(h, s) == IF s.arr = 0 THEN 0 ELSE Len(h[s.arr])

\* the elements of s
Elems(h, s) == IF s.arr = 0 THEN <<>> ELSE SubSeq(h[s.arr], 1, s.len)

\* a slice literal []string{...}: a new array, exactly full
Literal(h, items) ==
    IF items = <<>> THEN [heap |-> h, slice |-> NoSlice]
    ELSE [heap |-> Append(h, items), slice |-> [arr |-> Len(h) + 1, len |-> Len(items)]]

\* append(s, x): in place when the array has room, else into a new array of
\* twice the length
append(h, s, x) ==
    IF s.len < Cap(h, s)
    THEN [heap |-> [h EXCEPT ![s.arr][s.len + 1] = x],
          slice |-> [s EXCEPT !.len = @ + 1]]
    ELSE LET newcap == IF s.len = 0 THEN 1 ELSE 2 * s.len
             arr == [i \in 1..newcap |->
                        IF i <= s.len THEN h[s.arr][i]
                        ELSE IF i = s.len + 1 THEN x ELSE ""]
         IN  [heap |-> Append(h, arr),
              slice |-> [arr |-> Len(h) + 1, len |-> s.len + 1]]

\* append([]string{}, s...): the elements of s in a new array
copyOf(h, s) == Literal(h, Elems(h, s))

\* a Config with the elements of its slices in place of the slices
Value(h, c) ==
    [c EXCEPT !.ExcludeTypes = Elems(h, @),
              !.ExcludePaths = Elems(h, @),
              !.Format.ExcludeNodeFields = Elems(h, @)]

\* configs.New: [heap, config]
New ==
    [heap |-> << <<"size", "is_hidden", "type", "path">> >>,
     config |->
        [Path |-> <<".">>,
         ExcludeTypes |-> NoSlice,
         ExcludePaths |-> NoSlice,
         IncludeFiles |-> TRUE,
         MaxDepth |-> 1,
         FollowLinks |-> FALSE,
         Format |-> [Type |-> "json",
                     OutputPath |-> <<"o","u","t","p","u","t","-","d","i","r">>,
                     Indent |-> 2,
                     ExcludeNodeFields |-> [arr |-> 1, len |-> 4]]]]

\* faulty variant: the struct is copied, its slices are not
BuildShallow(h, b) == [heap |-> h, config |-> b]

\* ConfigBuilder.Build: [heap, config]
Build(h, b) ==
    LET t == copyOf(h, b.ExcludeTypes)
        p == copyOf(t.heap, b.ExcludePaths)
        n == copyOf(p.heap, b.Format.ExcludeNodeFields)
    IN  [heap |-> n.heap,
         config |->
            [Path |-> b.Path,
             ExcludeTypes |-> t.slice,
             ExcludePaths |-> p.slice,
             IncludeFiles |-> b.IncludeFiles,
             MaxDepth |-> b.MaxDepth,
             FollowLinks |-> b.FollowLinks,
             Format |-> [Type |-> b.Format.Type,
                         OutputPath |-> b.Format.OutputPath,
                         Indent |-> b.Format.Indent,
                         ExcludeNodeFields |-> n.slice]]]

\* one more call on the builder or assignment by its caller
Called ==
    /\ calls < MaxCalls
    /\ calls' = calls + 1
    /\ UNCHANGED <<fs, caller, cfg, opts, pc, stack, result, ops, filtered, output,
                   methodVars>>

\* a With* method that stores a value in a field
WithPath ==
    /\ Called
    /\ builder' = [builder EXCEPT !.Path = <<"r">>]
    /\ intended' = [intended EXCEPT !.Path = <<"r">>]
    /\ UNCHANGED <<heap, snapshots, expected, handedBack>>

WithMaxDepth ==
    /\ Called
    /\ builder' = [builder EXCEPT !.MaxDepth = -1]
    /\ intended' = [intended EXCEPT !.MaxDepth = -1]
    /\ UNCHANGED <<heap, snapshots, expected, handedBack>>

WithIncludeFiles ==
    /\ Called
    /\ builder' = [builder EXCEPT !.IncludeFiles = FALSE]
    /\ intended' = [intended EXCEPT !.IncludeFiles = FALSE]
    /\ UNCHANGED <<heap, snapshots, expected, handedBack>>

WithFollowLinks ==
    /\ Called
    /\ builder' = [builder EXCEPT !.FollowLinks = TRUE]
    /\ intended' = [intended EXCEPT !.FollowLinks = TRUE]
    /\ UNCHANGED <<heap, snapshots, expected, handedBack>>

WithFormat ==
    /\ Called
    /\ builder' = [builder EXCEPT !.Format.Type = "yaml"]
    /\ intended' = [intended EXCEPT !.Format.Type = "yaml"]
    /\ UNCHANGED <<heap, snapshots, expected, handedBack>>

WithOutputPath ==
    /\ Called
    /\ builder' = [builder EXCEPT !.Format.OutputPath = <<"o">>]
    /\ intended' = [intended EXCEPT !.Format.OutputPath = <<"o">>]
    /\ UNCHANGED <<heap, snapshots, expected, handedBack>>

WithIndent ==
    /\ Called
    /\ builder' = [builder EXCEPT !.Format.Indent = 4]
    /\ intended' = [intended EXCEPT !.Format.Indent = 4]
    /\ UNCHANGED <<heap, snapshots, expected, handedBack>>

\* the slices a caller can pass to a With* method: a literal of its own, or
\* a slice of a Config it got from Build
WithExcludePaths ==
    /\ Called
    /\ \/ LET l == Literal(heap, <<"p">>)
          IN  /\ heap' = l.heap
              /\ builder' = [builder EXCEPT !.ExcludePaths = l.slice]
              /\ intended' = [intended EXCEPT !.ExcludePaths = <<"p">>]
              /\ UNCHANGED handedBack
       \/ \E k \in 1..Len(snapshots) :
              /\ builder' = [builder EXCEPT !.ExcludePaths = snapshots[k].ExcludePaths]
              /\ intended' = [intended EXCEPT !.ExcludePaths =
                                 Elems(heap, snapshots[k].ExcludePaths)]
              /\ handedBack' = TRUE
              /\ UNCHANGED heap
    /\ UNCHANGED <<snapshots, expected>>

WithExcludeTypes ==
    /\ Called
    /\ \/ LET l == Literal(heap, <<".go">>)
          IN  /\ heap' = l.heap
              /\ builder' = [builder EXCEPT !.ExcludeTypes = l.slice]
              /\ intended' = [intended EXCEPT !.ExcludeTypes = <<".go">>]
              /\ UNCHANGED handedBack
       \/ \E k \in 1..Len(snapshots) :
              /\ builder' = [builder EXCEPT !.ExcludeTypes = snapshots[k].ExcludeTypes]
              /\ intended' = [intended EXCEPT !.ExcludeTypes =
                                 Elems(heap, snapshots[k].ExcludeTypes)]
              /\ handedBack' = TRUE
              /\ UNCHANGED heap
    /\ UNCHANGED <<snapshots, expected>>

WithExcludeNodeFields ==
    /\ Called
    /\ \/ LET l == Literal(heap, <<"size">>)
          IN  /\ heap' = l.heap
              /\ builder' = [builder EXCEPT !.Format.ExcludeNodeFields = l.slice]
              /\ intended' = [intended EXCEPT !.Format.ExcludeNodeFields = <<"size">>]
              /\ UNCHANGED handedBack
       \/ \E k \in 1..Len(snapshots) :
              /\ builder' = [builder EXCEPT !.Format.ExcludeNodeFields =
                                snapshots[k].Format.ExcludeNodeFields]
              /\ intended' = [intended EXCEPT !.Format.ExcludeNodeFields =
                                 Elems(heap, snapshots[k].Format.ExcludeNodeFields)]
              /\ handedBack' = TRUE
              /\ UNCHANGED heap
    /\ UNCHANGED <<snapshots, expected>>

AddExcludePath ==
    /\ Called
    /\ LET a == append(heap, builder.ExcludePaths, "a")
       IN  /\ heap' = a.heap
           /\ builder' = [builder EXCEPT !.ExcludePaths = a.slice]
    /\ intended' = [intended EXCEPT !.ExcludePaths = Append(@, "a")]
    /\ UNCHANGED <<snapshots, expected, handedBack>>

AddExcludeType ==
    /\ Called
    /\ LET a == append(heap, builder.ExcludeTypes, ".a")
       IN  /\ heap' = a.heap
           /\ builder' = [builder EXCEPT !.ExcludeTypes = a.slice]
    /\ intended' = [intended EXCEPT !.ExcludeTypes = Append(@, ".a")]
    /\ UNCHANGED <<snapshots, expected, handedBack>>

AddExcludeNodeField ==
    /\ Called
    /\ LET a == append(heap, builder.Format.ExcludeNodeFields, "name")
       IN  /\ heap' = a.heap
           /\ builder' = [builder EXCEPT !.Format.ExcludeNodeFields = a.slice]
    /\ intended' = [intended EXCEPT !.Format.ExcludeNodeFields = Append(@, "name")]
    /\ UNCHANGED <<snapshots, expected, handedBack>>

\* b.Build(): the caller keeps the Config it returns
BuildCall ==
    /\ Called
    /\ LET r == Build(heap, builder)
       IN  /\ heap' = r.heap
           /\ snapshots' = Append(snapshots, r.config)
    /\ expected' = Append(expected, intended)
    /\ UNCHANGED <<builder, intended, handedBack>>

\* the caller assigns to the first element of a slice of a Config it holds:
\* c.ExcludePaths[0] = "x", and so for the other two slices
SetElement ==
    /\ Called
    /\ \E k \in 1..Len(snapshots) :
          \/ /\ snapshots[k].ExcludePaths.len > 0
             /\ heap' = [heap EXCEPT ![snapshots[k].ExcludePaths.arr][1] = "x"]
             /\ expected' = [expected EXCEPT ![k].ExcludePaths[1] = "x"]
          \/ /\ snapshots[k].ExcludeTypes.len > 0
             /\ heap' = [heap EXCEPT ![snapshots[k].ExcludeTypes.arr][1] = "x"]
             /\ expected' = [expected EXCEPT ![k].ExcludeTypes[1] = "x"]
          \/ /\ snapshots[k].Format.ExcludeNodeFields.len > 0
             /\ heap' = [heap EXCEPT ![snapshots[k].Format.ExcludeNodeFields.arr][1] = "x"]
             /\ expected' = [expected EXCEPT ![k].Format.ExcludeNodeFields[1] = "x"]
    /\ UNCHANGED <<builder, snapshots, intended, handedBack>>

\* the caller appends to a slice of a Config it holds:
\* c.ExcludePaths = append(c.ExcludePaths, "y"), and so for the other two
AppendElement ==
    /\ Called
    /\ \E k \in 1..Len(snapshots) :
          \/ LET a == append(heap, snapshots[k].ExcludePaths, "y")
             IN  /\ heap' = a.heap
                 /\ snapshots' = [snapshots EXCEPT ![k].ExcludePaths = a.slice]
                 /\ expected' = [expected EXCEPT ![k].ExcludePaths = Append(@, "y")]
          \/ LET a == append(heap, snapshots[k].ExcludeTypes, "y")
             IN  /\ heap' = a.heap
                 /\ snapshots' = [snapshots EXCEPT ![k].ExcludeTypes = a.slice]
                 /\ expected' = [expected EXCEPT ![k].ExcludeTypes = Append(@, "y")]
          \/ LET a == append(heap, snapshots[k].Format.ExcludeNodeFields, "y")
             IN  /\ heap' = a.heap
                 /\ snapshots' = [snapshots EXCEPT ![k].Format.ExcludeNodeFields = a.slice]
                 /\ expected' = [expected EXCEPT ![k].Format.ExcludeNodeFields =
                                    Append(@, "y")]
    /\ UNCHANGED <<builder, intended, handedBack>>

----------------------------------------------------------------------------
(* The specifications *)

\* no entry point has been called
NothingRuns ==
    /\ caller = ""
    /\ cfg = ZeroOptions
    /\ opts = ZeroOptions
    /\ pc = "idle"
    /\ stack = <<>>
    /\ result = NoResult
    /\ ops = <<>>
    /\ filtered = NoFiltered
    /\ output = NoOutput

\* no method of a Config has been called
NoMethodCalled ==
    /\ validation = NoValidation
    /\ outputPath = NoOutputPath

\* configs.New() has returned the builder
NewBuilder ==
    /\ heap = New.heap
    /\ builder = New.config
    /\ snapshots = <<>>
    /\ expected = <<>>
    /\ intended = Value(New.heap, New.config)
    /\ handedBack = FALSE
    /\ calls = 0

Init ==
    /\ fs \in FileSystems
    /\ NothingRuns
    /\ config = CHOOSE c \in Configs : TRUE
    /\ NoMethodCalled
    /\ NewBuilder

Next ==
    \/ DirectCall
    \/ GenerateCall
    \/ MainInvalid
    \/ MainCall
    \/ Enter
    \/ LoopSkip
    \/ LoopRecurse
    \/ LoopEnd
    \/ Return
    \/ BuildTreeReturn
    \/ GenerateFail
    \/ GenerateFormat
    \/ MainFatal
    \/ MainFormat

Spec == Init /\ [][Next]_vars

\* BuildTree called on its own.  The call runs on one goroutine and nothing
\* makes it wait: whenever it has a next step it takes it in the end.
BuildTreeNext ==
    \/ DirectCall
    \/ Enter
    \/ LoopSkip
    \/ LoopRecurse
    \/ LoopEnd
    \/ Return
    \/ BuildTreeReturn

BuildTreeSpec == Init /\ [][BuildTreeNext]_vars /\ WF_vars(BuildTreeNext)

\* the methods of a Config, called in any order on any Config
ConfigInit ==
    /\ fs = PlainFS
    /\ NothingRuns
    /\ config \in Configs
    /\ NoMethodCalled
    /\ NewBuilder

ConfigNext ==
    \/ ValidateCall
    \/ FormatCall
    \/ GetOutputPathCall
    \/ GetOutputPathAgain

ConfigSpec == ConfigInit /\ [][ConfigNext]_vars

\* a ConfigBuilder and the Configs it builds, in the hands of one caller
BuilderInit ==
    /\ fs = PlainFS
    /\ NothingRuns
    /\ config = CHOOSE c \in Configs : TRUE
    /\ NoMethodCalled
    /\ NewBuilder

BuilderNext ==
    \/ WithPath
    \/ WithMaxDepth
    \/ WithIncludeFiles
    \/ WithFollowLinks
    \/ WithExcludePaths
    \/ WithExcludeTypes
    \/ WithFormat
    \/ WithOutputPath
    \/ WithIndent
    \/ WithExcludeNodeFields
    \/ AddExcludePath
    \/ AddExcludeType
    \/ AddExcludeNodeField
    \/ BuildCall
    \/ SetElement
    \/ AppendElement

BuilderSpec == BuilderInit /\ [][BuilderNext]_vars

----------------------------------------------------------------------------
(* What the properties speak about *)

\* the nodes of a tree, each with its depth below the root node
RECURSIVE NodesAt(_, _)
NodesAt(node, depth) ==
    {[node |-> node, depth |-> depth]}
        \cup UNION {NodesAt(node.Children[i], depth + 1) : i \in 1..Len(node.Children)}

\* the nodes of the tree BuildTree returned
ResultNodes == IF result.tree = Nil THEN {} ELSE NodesAt(result.tree[1], 0)

\* BuildTree has returned a tree
Built == pc = "built" /\ result.tree # Nil

\* the inode the root path names, 0 when nothing can be stat'ed there
RootIno ==
    LET r == CHOOSE r \in fs.roots : r.path = opts.Path
    IN  Resolve(fs, r.ino)

\* path and the paths of the directories above it, up to the root path
PathAndAncestors(path) ==
    {path} \cup {SubSeq(path, 1, i - 1) :
                    i \in {j \in 2..Len(path) :
                              /\ path[j] = "/"
                              /\ opts.Path # <<".">> => j - 1 >= Len(opts.Path)}}

\* some pattern of the list is a valid regular expression that matches the path
MatchesSomePattern(path, patterns) ==
    \E i \in 1..Len(patterns) :
        regexpCompiles(patterns[i]) /\ regexpMatches(patterns[i], path)

\* the extension of the path is in the list, compared case-insensitively
HasListedExtension(path, list) ==
    \E i \in 1..Len(list) : ToLower(list[i]) = ToLower(Ext(path))

\* every entry of the directory behind the node that the walk must keep as
\* a Directory (its metadata can be read, the loop does not skip it, it is
\* within the depth limit, its path is not excluded) is a child of the
\* node, and so on below it
RECURSIVE DirectoriesKept(_, _, _)
DirectoriesKept(node, ino, depth) ==
    node.Type = Directory =>
        LET entries == fs.inodes[Resolve(fs, ino)].entries
        IN  \A i \in 1..Len(entries) :
                LET e == entries[i]
                    kind == fs.inodes[e.ino].kind
                    target == Resolve(fs, e.ino)
                    isDirectory ==
                        \/ kind = "dir"
                        \/ /\ kind = "link" /\ opts.FollowLinks /\ opts.IncludeFiles
                           /\ target # 0 /\ fs.inodes[target].kind = "dir"
                IN  ( /\ e.infoOK
                      /\ isDirectory
                      /\ opts.MaxDepth = -1 \/ depth + 1 <= opts.MaxDepth
                      /\ ~MatchesSomePattern(Join(node.Path, e.name), opts.ExcludePaths) )
                    => \E j \in 1..Len(node.Children) :
                          /\ node.Children[j].Name = e.name
                          /\ node.Children[j].Type = Directory
                          /\ DirectoriesKept(node.Children[j], e.ino, depth + 1)

----------------------------------------------------------------------------
(* The properties *)

\* C1: with maxDepth = k >= 0 the returned tree has no node deeper than k,
\* and a node at depth exactly k has no children.
C1_DepthBound ==
    (Built /\ opts.MaxDepth >= 0) =>
        \A nd \in ResultNodes :
            /\ nd.depth <= opts.MaxDepth
            /\ nd.depth = opts.MaxDepth => nd.node.Children = <<>>

\* C1 happens: maxDepth 1 on r/{a.txt, b.GO, sub/{...}} returns sub, a
\* directory with content, as a node at depth 1 without children.
C1_Witness ==
    /\ Built /\ fs = PlainFS /\ opts.MaxDepth = 1
    /\ \E nd \in ResultNodes :
          /\ nd.depth = 1 /\ nd.node.Type = Directory
          /\ nd.node.Name = <<"s","u","b">> /\ nd.node.Children = <<>>

\* C2: no node of the returned tree has a path that matches an exclusion
\* pattern, nor lies below a path that matches one.
C2_PathExclusion ==
    Built =>
        \A nd \in ResultNodes :
            \A p \in PathAndAncestors(nd.node.Path) :
                ~MatchesSomePattern(p, opts.ExcludePaths)

\* C2 happens: the walk met an entry whose path is excluded while its
\* children's paths are not (r/d under the pattern "d$"), and returned a tree.
C2_Witness ==
    /\ Built /\ fs = LinkFS /\ opts.Path = <<"r">>
    /\ MatchesSomePattern(<<"r","/","d">>, opts.ExcludePaths)
    /\ ~MatchesSomePattern(<<"r","/","d","/","f",".","g","o">>, opts.ExcludePaths)
    /\ \E i \in 1..Len(ops) : ops[i].op = "Info" /\ ops[i].path = <<"r","/","d">>
    /\ Cardinality(ResultNodes) > 1

\* the root entry is filtered out: its path matches an exclusion pattern,
\* or it is a file with an excluded extension
RootFiltered ==
    \/ MatchesSomePattern(opts.Path, opts.ExcludePaths)
    \/ /\ fs.inodes[RootIno].kind = "file"
       /\ HasListedExtension(opts.Path, opts.ExcludeTypes)

\* C3 as stated: whenever the root can be stat'ed and the walk meets no
\* error, BuildTree returns a non-nil root, whatever the filters are.
C3_RootNeverExcluded ==
    (pc = "built" /\ RootIno # 0 /\ result.err = "" /\ opts.MaxDepth >= -1)
        => result.tree # Nil

\* C3 amended: for a statable root and maxDepth >= -1, BuildTree returns
\* (nil, nil) exactly when the root path matches an exclusion pattern or the
\* root is a file with an excluded extension; otherwise it returns a
\* non-nil root or an error, never both.
C3_RootFilteredLikeAnyEntry ==
    (pc = "built" /\ RootIno # 0 /\ opts.MaxDepth >= -1) =>
        IF RootFiltered
        THEN result.tree = Nil /\ result.err = ""
        ELSE (result.tree # Nil) # (result.err # "")

\* C3 happens: the root directory r is excluded by the pattern "^r$".
C3_Witness ==
    /\ pc = "built" /\ RootIno # 0 /\ opts.MaxDepth >= -1
    /\ fs.inodes[RootIno].kind = "dir"
    /\ MatchesSomePattern(opts.Path, opts.ExcludePaths)
    /\ result = NoResult

\* C4: no File node of the returned tree has an extension of ExcludeTypes
\* (compared case-insensitively), and every entry classified Directory that
\* passes the depth and path checks is in the tree, whatever its name.
C4_TypeExclusion ==
    Built =>
        /\ \A nd \in ResultNodes :
              nd.node.Type = File
                  => ~HasListedExtension(nd.node.Path, opts.ExcludeTypes)
        /\ DirectoriesKept(result.tree[1], RootIno, 0)

\* C4 happens: with ".go" excluded, the files f.go is gone from r/d and the
\* directory r/x.go is still there, with its file n.
C4_Witness ==
    /\ Built /\ fs = LinkFS /\ opts.Path = <<"r">>
    /\ opts.ExcludeTypes = << <<".","g","o">> >>
    /\ opts.IncludeFiles
    /\ \E nd \in ResultNodes :
          /\ nd.node.Path = <<"r","/","d">> /\ nd.node.Children = <<>>
    /\ \E nd \in ResultNodes :
          /\ nd.node.Path = <<"r","/","x",".","g","o">> /\ nd.node.Type = Directory
          /\ Len(nd.node.Children) = 1

\* C5: with IncludeFiles false no node below the root is a File, and every
\* subdirectory that passes the depth and path checks is in the tree, and
\* so are its own subdirectories.
C5_FilesLeftOut ==
    (Built /\ ~opts.IncludeFiles) =>
        /\ \A nd \in ResultNodes : nd.depth >= 1 => nd.node.Type # File
        /\ DirectoriesKept(result.tree[1], RootIno, 0)

\* C5 happens: r/{a.txt, b.GO, sub/{c.go, in/{.h}}} without files is
\* r/sub/in, three directories.
C5_Witness ==
    /\ Built /\ fs = PlainFS /\ ~opts.IncludeFiles /\ opts.MaxDepth = -1
    /\ Cardinality(ResultNodes) = 3
    /\ \E nd \in ResultNodes : nd.depth = 2 /\ nd.node.Name = <<"i","n">>

\* C6: when the root cannot be stat'ed BuildTree returns (nil, error) and
\* does nothing but the Stat; and whenever BuildTree returns an error it
\* returns no tree.
C6_ErrorMeansNoTree ==
    /\ (pc = "built" /\ RootIno = 0) =>
          /\ result.tree = Nil /\ result.err # ""
          /\ ops = <<Op("Stat", opts.Path, FALSE)>>
    /\ (pc \in {"built", "done", "fatal"} /\ result.err # "") => result.tree = Nil

\* C6 happens: BuildTree on the path "no", which does not exist.
C6_Witness ==
    /\ pc = "built" /\ opts.Path = <<"n","o">> /\ RootIno = 0
    /\ result.err = "access"

\* the i-th file system operation is a directory listing that failed
FailedReadDir(i) == ops[i].op = "ReadDir" /\ ~ops[i].ok

\* C7: once a directory listing has failed, no file system operation
\* follows it (no sibling is visited), every call that is still active
\* returns (nil, error) in its turn, and BuildTree returns (nil, error).
C7_ReadDirErrorAborts ==
    \A i \in 1..Len(ops) :
        FailedReadDir(i) =>
            /\ i = Len(ops)
            /\ pc = "walking" =>
                  Top.phase = "ret" /\ Top.rerr # "" /\ Top.rnode = Nil
            /\ pc # "walking" => result.tree = Nil /\ result.err # ""

\* C7 happens: the listing of r/p/q failed at depth 2; the error is now
\* returned by the call for r/p, whose entry w has not been visited.
C7_Witness ==
    /\ pc = "walking" /\ Len(stack) = 2
    /\ \E i \in 1..Len(ops) : FailedReadDir(i) /\ ops[i].path = <<"r","/","p","/","q">>
    /\ Top.path = <<"r","/","p">> /\ Top.rerr # ""
    /\ Top.idx < Len(Top.entries)
    /\ stack[1].idx < Len(stack[1].entries)

\* C8 as stated: Generate and main hand cfg.ExcludeTypes to the builder as
\* its type exclusions and cfg.ExcludePaths as its path exclusions only, so
\* a file with an extension of cfg.ExcludeTypes is not in the tree.
C8_ExcludeTypesPassed ==
    (caller \in {"Generate", "main"} /\ pc \in {"walking", "built", "done"}) =>
        /\ opts.ExcludePaths = cfg.ExcludePaths
        /\ opts.ExcludeTypes = cfg.ExcludeTypes
        /\ \A nd \in ResultNodes :
              nd.node.Type = File
                  => ~HasListedExtension(nd.node.Path, cfg.ExcludeTypes)

\* C9 as stated: Format of a nil root ends without error and without a
\* crash for each of json, yaml, xml and txt.
C9_NilRootFormats ==
    (pc = "done" /\ result.err = "" /\ result.tree = Nil
        /\ output.format \in SupportedFormats)
        => output.status = "ok"

\* fn is the projection of node that leaves out the fields of E, at every
\* node: a field of E has its zero value, any other field the node's value
RECURSIVE IsProjection(_, _, _)
IsProjection(node, fn, E) ==
    /\ fn.Name = (IF "name" \in E THEN <<>> ELSE node.Name)
    /\ fn.Path = (IF "path" \in E THEN <<>> ELSE node.Path)
    /\ fn.Type = (IF "type" \in E THEN "" ELSE node.Type)
    /\ fn.Size = (IF "size" \in E THEN 0 ELSE node.Size)
    /\ fn.IsHidden = (IF "is_hidden" \in E THEN FALSE ELSE node.IsHidden)
    /\ IF "children" \in E
       THEN fn.Children = <<>>
       ELSE /\ Len(fn.Children) = Len(node.Children)
            /\ \A i \in 1..Len(node.Children) :
                  IsProjection(node.Children[i], fn.Children[i], E)

\* C10: the value createFilteredNode returns for the tree and the excluded
\* fields E leaves out exactly the fields of E at every node, keeps every
\* other field, and has no descendants when children is in E.
C10_FilteredProjection ==
    (pc = "done" /\ filtered.called /\ result.tree # Nil) =>
        /\ filtered.value # Nil
        /\ IsProjection(result.tree[1], filtered.value[1],
                        {output.exclude[i] : i \in 1..Len(output.exclude)})

\* C10 happens: a tree three levels deep with a hidden file of size 7 is
\* projected without size and is_hidden, its children kept.
C10_Witness ==
    /\ pc = "done" /\ filtered.called /\ result.tree # Nil
    /\ contains(output.exclude, "size") /\ ~contains(output.exclude, "children")
    /\ \E nd \in ResultNodes : nd.depth = 2 /\ nd.node.Size > 0
    /\ \E nd \in ResultNodes : nd.node.IsHidden
    /\ \E nd \in NodesAt(filtered.value[1], 0) : nd.depth = 2

----------------------------------------------------------------------------
(* Reading a JSON document back into a tree.Node *)

\* the FileType a type string names
FileTypeOf(s) ==
    IF s = TypeName(Directory) THEN Directory
    ELSE IF s = TypeName(File) THEN File
    ELSE IF s = TypeName(Symlink) THEN Symlink
    ELSE ""

\* the member of an object under a key, null when the object has none
Member(doc, key) ==
    IF \E i \in 1..Len(doc.keys) : doc.keys[i] = key
    THEN doc.items[CHOOSE i \in 1..Len(doc.keys) : doc.keys[i] = key]
    ELSE JNull

\* json.Unmarshal of an object into a tree.Node: each field takes the member
\* under its json tag, and keeps its zero value when the member is missing
RECURSIVE decodeNode(_)
decodeNode(doc) ==
    [Name |-> Member(doc, "name").s,
     Path |-> Member(doc, "path").s,
     Type |-> FileTypeOf(Member(doc, "type").s),
     Size |-> Member(doc, "size").n,
     Children |-> LET items == Member(doc, "children").items
                  IN  [i \in 1..Len(items) |-> decodeNode(items[i])],
     IsHidden |-> Member(doc, "is_hidden").b]

\* json.Unmarshal into a *tree.Node: null leaves the pointer nil
decode(doc) == IF doc.t = "null" THEN Nil ELSE Some(decodeNode(doc))

\* two trees agree in every field that is not in E, at every node
RECURSIVE EqualOutside(_, _, _)
EqualOutside(a, b, E) ==
    /\ "name" \in E \/ a.Name = b.Name
    /\ "path" \in E \/ a.Path = b.Path
    /\ "type" \in E \/ a.Type = b.Type
    /\ "size" \in E \/ a.Size = b.Size
    /\ "is_hidden" \in E \/ a.IsHidden = b.IsHidden
    /\ \/ "children" \in E
       \/ /\ Len(a.Children) = Len(b.Children)
          /\ \A i \in 1..Len(a.Children) :
                EqualOutside(a.Children[i], b.Children[i], E)

\* the JSON document of the tree was written
WroteJSON == pc = "done" /\ output.format = "json" /\ output.status = "ok"

\* the tree read back from the JSON document is the tree that was formatted,
\* outside the excluded fields
ReadsBackEqual ==
    LET back == decode(output.doc[1])
        E == {output.exclude[i] : i \in 1..Len(output.exclude)}
    IN  IF result.tree = Nil THEN back = Nil
        ELSE back # Nil /\ EqualOutside(result.tree[1], back[1], E)

\* every name and path of the tree is valid UTF-8
ValidText ==
    \A nd \in ResultNodes :
        /\ \A i \in 1..Len(nd.node.Name) : nd.node.Name[i] # BadByte
        /\ \A i \in 1..Len(nd.node.Path) : nd.node.Path[i] # BadByte

\* C11 as stated: for every tree, reading the JSON document back gives a tree
\* equal to the original in shape and in every field that was not excluded.
C11_RoundTrip == WroteJSON => ReadsBackEqual

\* C11 amended: for every tree whose names and paths are valid UTF-8, reading
\* the JSON document back gives a tree equal to the original in shape and in
\* every field that was not excluded.
C11_RoundTripValidText == (WroteJSON /\ ValidText) => ReadsBackEqual

\* C11 happens: a tree three levels deep with a hidden file and a file of
\* non-zero size was written as JSON with all fields, and read back.
C11_Witness ==
    /\ WroteJSON /\ ValidText /\ result.tree # Nil /\ output.exclude = <<>>
    /\ \E nd \in ResultNodes : nd.depth = 2 /\ nd.node.Size > 0
    /\ \E nd \in ResultNodes : nd.node.IsHidden
    /\ decode(output.doc[1]) = result.tree

----------------------------------------------------------------------------
(* The tree against the file system it was built from *)

\* the entries of the directory behind an inode, through links
EntriesOf(ino) ==
    IF Resolve(fs, ino) = 0 THEN <<>> ELSE fs.inodes[Resolve(fs, ino)].entries

\* the nodes of a tree, each with the inode of its entry and its depth; the
\* children of a node are matched to the entries of its directory by name
RECURSIVE NodeInos(_, _, _)
NodeInos(node, ino, depth) ==
    {[node |-> node, ino |-> ino, depth |-> depth]}
        \cup UNION {
            LET c == node.Children[i]
                named == {j \in 1..Len(EntriesOf(ino)) : EntriesOf(ino)[j].name = c.Name}
            IN  IF named = {} THEN {}
                ELSE NodeInos(c, EntriesOf(ino)[CHOOSE j \in named : TRUE].ino, depth + 1)
            : i \in 1..Len(node.Children)}

\* the nodes of the tree BuildTree returned, with their inodes
ResultInos == IF result.tree = Nil THEN {} ELSE NodeInos(result.tree[1], RootIno, 0)

\* the type a directory entry is to be recorded with
EntryType(e) ==
    LET kind == fs.inodes[e.ino].kind
        target == Resolve(fs, e.ino)
    IN  IF kind = "dir" THEN Directory
        ELSE IF kind = "file" THEN File
        ELSE IF opts.FollowLinks /\ target # 0
        THEN IF fs.inodes[target].kind = "dir" THEN Directory ELSE File
        ELSE Symlink

\* the entry e of the directory at dirPath, depth levels below the root, is
\* visited and survives the depth and path checks: its metadata can be read,
\* the loop over the entries does not skip it, it is within the depth limit
\* and no pattern matches its path
EntrySurvives(dirPath, e, depth) ==
    /\ e.infoOK
    /\ opts.IncludeFiles \/ fs.inodes[e.ino].kind = "dir"
    /\ opts.MaxDepth = -1 \/ depth <= opts.MaxDepth
    /\ ~MatchesSomePattern(Join(dirPath, e.name), opts.ExcludePaths)

\* the entry is to appear in the tree: it survives, and is not a file of an
\* excluded type
EntryKept(dirPath, e, depth) ==
    /\ EntrySurvives(dirPath, e, depth)
    /\ ~(EntryType(e) = File
          /\ HasListedExtension(Join(dirPath, e.name), opts.ExcludeTypes))

\* the node has a child of that name
HasChild(node, name) == \E j \in 1..Len(node.Children) : node.Children[j].Name = name

\* the child of that name
ChildNamed(node, name) ==
    node.Children[CHOOSE j \in 1..Len(node.Children) : node.Children[j].Name = name]

StartsWithDot(name) == Len(name) > 0 /\ name[1] = "."

\* C12: every node of a tree BuildTree returned has IsHidden true iff its
\* Name starts with a dot ("." and ".." and ".f.txt" are hidden, "a.txt" is
\* not), and a hidden entry that passes the filters is a node of the tree.
C12_HiddenFlag ==
    Built =>
        /\ \A nd \in ResultNodes : nd.node.IsHidden <=> StartsWithDot(nd.node.Name)
        /\ \A x \in ResultInos :
              x.node.Type = Directory =>
                \A i \in 1..Len(EntriesOf(x.ino)) :
                    LET e == EntriesOf(x.ino)[i]
                    IN  (StartsWithDot(e.name) /\ EntryKept(x.node.Path, e, x.depth + 1))
                        => /\ HasChild(x.node, e.name)
                           /\ ChildNamed(x.node, e.name).IsHidden

\* C12 happens: the tree holds the hidden file .f.txt beside entries that are
\* not hidden.
C12_Witness ==
    /\ Built
    /\ \E nd \in ResultNodes :
          nd.node.Name = <<".","f",".","t","x","t">> /\ nd.node.IsHidden
    /\ \E nd \in ResultNodes : nd.depth = 1 /\ ~nd.node.IsHidden

\* C12 happens for a root named "..": the root node is hidden.
C12_WitnessDotDot ==
    Built /\ result.tree[1].Name = <<".", ".">> /\ result.tree[1].IsHidden

\* the unfiltered walk: everything below the root, files included
WalksEverything ==
    /\ opts.MaxDepth = -1 /\ opts.IncludeFiles
    /\ opts.ExcludePaths = <<>> /\ opts.ExcludeTypes = <<>>

PathChecked ==
    {i \in 1..Len(stack) :
        /\ stack[i].phase # "enter"
        /\ opts.MaxDepth = -1 \/ stack[i].depth <= opts.MaxDepth}

\* C14: a call of buildTreeRecursive is turned away by the path check (it
\* returns nil before it creates its node) if and only if some syntactically
\* valid pattern of ExcludePaths matches its path; a pattern that cannot be
\* parsed counts as a non-match wherever it stands in the list, and the call
\* turned away returns no error.
C14_BadPatternFailsOpen ==
    \A i \in PathChecked :
        /\ (stack[i].node = ZeroNode) <=> MatchesSomePattern(stack[i].path, opts.ExcludePaths)
        /\ stack[i].node = ZeroNode =>
              stack[i].phase = "ret" /\ stack[i].rnode = Nil /\ stack[i].rerr = ""

\* C14 happens: the list is ("[", "d$"), and the call for r/d is turned away
\* by the second pattern after the first did not parse.
C14_Witness ==
    /\ opts.ExcludePaths = << <<"[">>, <<"d","$">> >>
    /\ \E i \in PathChecked :
          /\ stack[i].path = <<"r","/","d">>
          /\ stack[i].node = ZeroNode /\ stack[i].phase = "ret"

\* C14 happens with the unparseable pattern last: the list is ("sub", "["),
\* and the call for r/a.txt, which no pattern matches, creates its node.
C14_WitnessBadLast ==
    /\ opts.ExcludePaths = << <<"s","u","b">>, <<"[">> >>
    /\ \E i \in PathChecked :
          /\ stack[i].path = <<"r","/","a",".","t","x","t">>
          /\ stack[i].node # ZeroNode

----------------------------------------------------------------------------
(* The configuration *)

\* C15: Validate returns an error if and only if Path is empty, or MaxDepth
\* is below -1, or Format.Type is none of json, yaml, xml, txt; and for a
\* Config whose Path and MaxDepth it accepts, Validate accepts the selector
\* exactly when Format does not refuse it.
C15_ValidateRefuses ==
    validation.called =>
        /\ validation.err # "" <=>
              \/ config.Path = <<>>
              \/ config.MaxDepth < -1
              \/ config.Format.Type \notin {"json", "yaml", "xml", "txt"}
        /\ (output # NoOutput /\ config.Path # <<>> /\ config.MaxDepth >= -1) =>
              (validation.err = "" <=> output.status = "ok")

\* C15 happens: Validate accepted a Config with MaxDepth = -1 whose selector
\* Format accepted too.
C15_Witness ==
    /\ validation.called /\ validation.err = ""
    /\ config.MaxDepth = -1
    /\ output.status = "ok"

\* C15 happens for a selector both refuse: json in capitals.
C15_WitnessRefused ==
    /\ validation.called /\ validation.err # ""
    /\ config.Path # <<>> /\ config.MaxDepth = 0 /\ config.Format.Type = "JSON"
    /\ output.status = "error"

\* the values of the Config the builder holds
BuilderValue == Value(heap, builder)

\* every Config that Build returned holds what it was returned with, and the
\* builder holds what its With* and Add* calls asked for
SnapshotsStand ==
    /\ \A k \in 1..Len(snapshots) : Value(heap, snapshots[k]) = expected[k]
    /\ BuilderValue = intended

\* C16 as stated: whatever calls follow on the builder, every field of a
\* Config that Build returned is unchanged, and changing the slices of a
\* built Config does not change what the builder holds and returns next.
C16_IndependentSnapshot == SnapshotsStand

\* C16 amended: the same, as long as the caller has passed no slice of a
\* built Config to a With* method.
C16_IndependentUnlessHandedBack == ~handedBack => SnapshotsStand

\* C16 happens: after a first Build the builder was given another path
\* pattern and the caller overwrote a field name in the first Config, and a
\* second Build returned a Config that differs from the first in both.
C16_Witness ==
    /\ ~handedBack /\ Len(snapshots) = 2
    /\ expected[1].Format.ExcludeNodeFields[1] = "x"
    /\ expected[2].Format.ExcludeNodeFields[1] = "size"
    /\ expected[2].ExcludePaths # expected[1].ExcludePaths
    /\ Value(heap, snapshots[2]) = expected[2]

\* what GetOutputPath is to return for an output path and a selector
NormalizedPath(path, type) ==
    LET ext == <<".">> \o FormatChars(type)
    IN  IF path = <<>> THEN <<>>
        ELSE IF \E k \in 0..Len(path) : ToLower(SubSeq(path, k + 1, Len(path))) = ToLower(ext)
        THEN path
        ELSE path \o ext

\* C17: GetOutputPath returns "" for an empty OutputPath, OutputPath itself
\* when it ends with "." + Type whatever the letter case, and OutputPath +
\* "." + Type otherwise; called on its own result, it returns that result.
C17_OutputPathNormalized ==
    outputPath.called =>
        /\ outputPath.value = NormalizedPath(outputPath.of, config.Format.Type)
        /\ outputPath.again => outputPath.value = outputPath.of

\* C17 happens: out.JSON was kept for the selector json, and kept again.
C17_Witness ==
    /\ outputPath.called /\ outputPath.again
    /\ config.Format.Type = "json"
    /\ outputPath.value = <<"o","u","t",".","J","S","O","N">>

\* C17 happens: out.txt became out.txt.json for the selector json, and
\* stayed so.
C17_WitnessAppended ==
    /\ outputPath.called /\ outputPath.again
    /\ config.Format.Type = "json"
    /\ outputPath.value = <<"o","u","t",".","t","x","t",".","j","s","o","n">>

----------------------------------------------------------------------------
(* Symbolic links *)

\* the places of the symlink entries, in the directory behind the node x of
\* the tree, that are visited and survive the depth and path checks
SurvivingLinks(x) ==
    {i \in 1..Len(EntriesOf(x.ino)) :
        /\ fs.inodes[EntriesOf(x.ino)[i].ino].kind = "link"
        /\ EntrySurvives(x.node.Path, EntriesOf(x.ino)[i], x.depth + 1)}

\* the Directory nodes of the returned tree
DirectoryNodes == {x \in ResultInos : x.node.Type = Directory}

\* some file system operation went through the path: listed it, resolved
\* it, or touched an entry below it
WentThrough(path) ==
    \E i \in 1..Len(ops) :
        \/ ops[i].op \in {"ReadDir", "EvalSymlinks"} /\ ops[i].path = path
        \/ HasPrefix(ops[i].path, path \o <<"/">>)

ChildrenAreKeptEntries(node, dir, depth) ==
    LET entries == fs.inodes[dir].entries
        kept == {j \in 1..Len(entries) : EntryKept(node.Path, entries[j], depth + 1)}
    IN  /\ Len(node.Children) = Cardinality(kept)
        /\ \A j \in kept : HasChild(node, entries[j].name)

NameOf(ino) ==
    LET holders == {d \in 1..Len(fs.inodes) :
                      \E j \in 1..Len(fs.inodes[d].entries) :
                          fs.inodes[d].entries[j].ino = ino}
        d == CHOOSE d \in holders : TRUE
        j == CHOOSE j \in 1..Len(fs.inodes[d].entries) : fs.inodes[d].entries[j].ino = ino
    IN  fs.inodes[d].entries[j].name

\* a symlink entry that stays classified Symlink is a node, whatever
\* ExcludeTypes lists
SymlinksNeverOmitted ==
    \A x \in DirectoryNodes : \A i \in SurvivingLinks(x) :
        LET e == EntriesOf(x.ino)[i]
        IN  EntryType(e) = Symlink =>
                /\ HasChild(x.node, e.name)
                /\ ChildNamed(x.node, e.name).Type = Symlink

\* C20 as stated: with FollowLinks on, a symlink that resolves to a regular
\* file with an excluded extension is omitted from the result; a symlink that
\* stays classified Symlink is never omitted by ExcludeTypes.
C20_TargetTypeExcluded ==
    Built =>
        /\ \A x \in DirectoryNodes : \A i \in SurvivingLinks(x) :
              LET e == EntriesOf(x.ino)[i]
              IN  ( /\ EntryType(e) = File
                    /\ HasListedExtension(NameOf(Resolve(fs, e.ino)), opts.ExcludeTypes) )
                  => ~HasChild(x.node, e.name)
        /\ SymlinksNeverOmitted

\* C20 amended: with FollowLinks on, a symlink that resolves to a regular
\* file is omitted from the result if and only if the extension of the
\* link's own path is excluded, whatever the name of its target; a symlink
\* that stays classified Symlink is never omitted by ExcludeTypes.
C20_LinkTypeExcluded ==
    Built =>
        /\ \A x \in DirectoryNodes : \A i \in SurvivingLinks(x) :
              LET e == EntriesOf(x.ino)[i]
              IN  EntryType(e) = File =>
                    (~HasChild(x.node, e.name) <=>
                        HasListedExtension(Join(x.node.Path, e.name), opts.ExcludeTypes))
        /\ SymlinksNeverOmitted

\* C20 happens: .go is excluded and links are followed; lf.go, a link to the
\* file n, is omitted, ln, a link to the file f.go, is a File node, and the
\* dangling link bad is a Symlink node.
C20_Witness ==
    /\ Built /\ opts.FollowLinks
    /\ opts.ExcludeTypes = << <<".","g","o">> >>
    /\ opts.Path = <<"r">>
    /\ ~HasChild(result.tree[1], <<"l","f",".","g","o">>)
    /\ HasChild(result.tree[1], <<"l","n">>)
    /\ ChildNamed(result.tree[1], <<"l","n">>).Type = File
    /\ HasChild(result.tree[1], <<"b","a","d">>)

\* C20 happens with links not followed: .go is excluded and lf.go is a
\* Symlink node.
C20_WitnessNotFollowed ==
    /\ Built /\ ~opts.FollowLinks
    /\ opts.ExcludeTypes = << <<".","g","o">> >>
    /\ opts.Path = <<"r">>
    /\ HasChild(result.tree[1], <<"l","f",".","g","o">>)
    /\ ChildNamed(result.tree[1], <<"l","f",".","g","o">>).Type = Symlink

----------------------------------------------------------------------------
(* Termination of BuildTree.                                                *)

\* the directory a call of buildTreeRecursive stands on
DirOf(fr) == Resolve(fs, fr.info.ino)

\* the recursion is inside a directory it is already in the middle of: two
\* calls on the stack, both classified Directory, stand on the same directory
InCycle ==
    \E i, j \in 1..Len(stack) :
        /\ i < j
        /\ stack[i].node.Type = Directory /\ stack[j].node.Type = Directory
        /\ DirOf(stack[i]) = DirOf(stack[j])

\* no call is made deeper than one level below MaxDepth, and a call at that
\* level lists nothing
CutAtMaxDepth ==
    \A i \in 1..Len(stack) :
        /\ stack[i].depth <= opts.MaxDepth + 1
        /\ stack[i].depth = opts.MaxDepth + 1 => stack[i].phase # "loop"

\* BuildTree returned the error of a directory listing, the last operation
\* of the walk, refused on a path through more than LinkLimit links
RefusedByOS ==
    /\ result = [tree |-> Nil, err |-> "readdir"]
    /\ ops # <<>> /\ FailedReadDir(Len(ops))
    /\ Len(ops[Len(ops)].path) >= Len(opts.Path) + 3 * (LinkLimit + 1)

\* BuildTree returned a tree in which a directory reached through a link
\* holds a link whose longer path an ExcludePaths pattern matches
CutByPattern ==
    /\ result.err = "" /\ result.tree # Nil
    /\ \E x \in DirectoryNodes :
          /\ fs.inodes[x.ino].kind = "link"
          /\ \E j \in 1..Len(EntriesOf(x.ino)) :
                LET e == EntriesOf(x.ino)[j]
                IN  /\ fs.inodes[e.ino].kind = "link"
                    /\ MatchesSomePattern(Join(x.node.Path, e.name), opts.ExcludePaths)

C21_WitnessCut ==
    /\ InCycle /\ opts.MaxDepth = 1 /\ Len(stack) = 3

\* C21 happens with a cycle cut by a pattern: r/up was listed, r/up/up was
\* excluded, and BuildTree returned a tree
C21_WitnessPattern ==
    /\ pc = "built" /\ opts.MaxDepth = -1 /\ opts.FollowLinks /\ CutByPattern

----------------------------------------------------------------------------
(* The children of a node against the entries of its directory.            *)

\* the entries of the directory of x that stay in the result, in the order
\* of the enumeration
KeptEntries(x) ==
    SelectSeq(EntriesOf(x.ino), LAMBDA e : EntryKept(x.node.Path, e, x.depth + 1))

\* the children of x are the kept entries of its directory, in their order
ChildrenInOrder(x) ==
    /\ Len(x.node.Children) = Len(KeptEntries(x))
    /\ \A i \in 1..Len(x.node.Children) :
          x.node.Children[i].Name = KeptEntries(x)[i].name

FailedInfo(i) == ops[i].op = "Info" /\ ~ops[i].ok

\* C22: an entry whose metadata cannot be read is dropped and nothing else
\* happens: BuildTree returns an error only when os.Stat on the root or a
\* directory listing failed, a directory node has no child of that entry's
\* name, and its children are the other kept entries in enumeration order.
C22_UnreadableChildDropped ==
    pc = "built" =>
        /\ (\A i \in 1..Len(ops) : ops[i].op \in {"Stat", "ReadDir"} => ops[i].ok)
              => result.err = ""
        /\ \A x \in DirectoryNodes :
              /\ \A j \in 1..Len(EntriesOf(x.ino)) :
                    ~EntriesOf(x.ino)[j].infoOK
                        => ~HasChild(x.node, EntriesOf(x.ino)[j].name)
              /\ ChildrenInOrder(x)

\* C22 happens: the metadata of r/gone could not be read, BuildTree returned
\* a tree and no error, and the root has .f.txt, p and z, in that order,
\* z coming after gone in the enumeration
C22_Witness ==
    /\ pc = "built" /\ result.err = "" /\ result.tree # Nil
    /\ \E i \in 1..Len(ops) : FailedInfo(i) /\ ops[i].path = <<"r","/","g","o","n","e">>
    /\ Len(result.tree[1].Children) = 3
    /\ result.tree[1].Children[1].Name = <<".","f",".","t","x","t">>
    /\ result.tree[1].Children[2].Name = <<"p">>
    /\ result.tree[1].Children[3].Name = <<"z">>

----------------------------------------------------------------------------
(* Which directories are listed.                                           *)

\* the call listed its directory, or tried to and failed
Listed(fr) ==
    \/ fr.phase = "loop"
    \/ \E k \in 1..Len(ops) : ops[k].op = "ReadDir" /\ ops[k].path = fr.path

\* the call returns the error of its own directory listing
ReadFailed(fr) ==
    /\ fr.phase = "ret" /\ fr.rerr = "readdir"
    /\ \E k \in 1..Len(ops) : FailedReadDir(k) /\ ops[k].path = fr.path

\* a directory whose children can appear in the result
MustBeExpanded(fr) == opts.MaxDepth = -1 \/ fr.depth < opts.MaxDepth

\* C23: only a directory that must be expanded, one at a depth below
\* MaxDepth or at any depth when MaxDepth is -1, is listed, and only the
\* failure to list such a directory is returned as an error; a directory at
\* depth MaxDepth is not listed and cannot abort the build.
C23_ReadErrorOnlyWhenExpanded ==
    \A i \in 1..Len(stack) :
        /\ ReadFailed(stack[i]) => MustBeExpanded(stack[i])
        /\ Listed(stack[i]) => MustBeExpanded(stack[i])

----------------------------------------------------------------------------
(* The entries left out with the files.                                    *)

\* the entry is within MaxDepth, its metadata can be read and no pattern
\* excludes its path
Visitable(x, e) ==
    /\ e.infoOK
    /\ opts.MaxDepth = -1 \/ x.depth + 1 <= opts.MaxDepth
    /\ ~MatchesSomePattern(Join(x.node.Path, e.name), opts.ExcludePaths)

\* C24: with IncludeFiles false exactly the entries that are files are
\* skipped: no file is a child, every visitable directory is a Directory
\* child, and every visitable symbolic link is visited: a Symlink child
\* when it is not followed or cannot be resolved, a Directory child when it
\* is followed to a directory.
C24_OnlyFilesSkipped ==
    (Built /\ ~opts.IncludeFiles) =>
        \A x \in DirectoryNodes : \A j \in 1..Len(EntriesOf(x.ino)) :
            LET e == EntriesOf(x.ino)[j]
                kind == fs.inodes[e.ino].kind
            IN  /\ kind = "file" => ~HasChild(x.node, e.name)
                /\ (kind = "dir" /\ Visitable(x, e)) =>
                      /\ HasChild(x.node, e.name)
                      /\ ChildNamed(x.node, e.name).Type = Directory
                /\ (kind = "link" /\ Visitable(x, e) /\ EntryType(e) # File) =>
                      /\ HasChild(x.node, e.name)
                      /\ ChildNamed(x.node, e.name).Type = EntryType(e)

----------------------------------------------------------------------------
(* The order of the checks on one entry.                                   *)

\* the file system operations made on a path
OpsOn(path) == {k \in 1..Len(ops) : ops[k].path = path}

\* nothing was resolved or listed at the path of an excluded call
ExcludedUntouched ==
    \A i \in 1..Len(stack) :
        (~depthExceeded(opts, stack[i].depth)
            /\ MatchesSomePattern(stack[i].path, opts.ExcludePaths)) =>
                \A k \in OpsOn(stack[i].path) : ops[k].op \notin {"EvalSymlinks", "ReadDir"}

\* the call stands on a directory, or on a link followed to a directory
OnDirectory(fr) ==
    \/ fr.info.isDir
    \/ /\ fr.info.isSymlink /\ opts.FollowLinks
       /\ Resolve(fs, fr.info.ino) # 0
       /\ fs.inodes[Resolve(fs, fr.info.ino)].kind = "dir"

\* C23 amended: every directory that is not excluded and lies at a depth of
\* at most MaxDepth (any depth when MaxDepth is -1) is listed, the ones at
\* depth exactly MaxDepth included, and no other; a listing that fails is
\* returned as the error of BuildTree, with no tree, also when the
\* directory lies at depth MaxDepth and none of its children could appear.
C23_ReadErrorWhenListed ==
    /\ \A i \in 1..Len(stack) :
          /\ stack[i].phase # "enter" =>
                (Listed(stack[i]) <=>
                    /\ opts.MaxDepth = -1 \/ stack[i].depth <= opts.MaxDepth
                    /\ ~MatchesSomePattern(stack[i].path, opts.ExcludePaths)
                    /\ OnDirectory(stack[i]))
          /\ ReadFailed(stack[i]) =>
                (opts.MaxDepth = -1 \/ stack[i].depth <= opts.MaxDepth)
    /\ (pc = "built" /\ \E k \in 1..Len(ops) : FailedReadDir(k)) =>
          result = [tree |-> Nil, err |-> "readdir"]

\* C23 happens: with MaxDepth 2 the directory r/p/q, at depth 2, could not
\* be listed and BuildTree returned the error and no tree
C23_Witness ==
    /\ pc = "built" /\ opts.Path = <<"r">> /\ opts.MaxDepth = 2
    /\ result = [tree |-> Nil, err |-> "readdir"]
    /\ FailedReadDir(Len(ops)) /\ ops[Len(ops)].path = <<"r","/","p","/","q">>

\* C25: the depth check comes first: for a call at a depth beyond a
\* MaxDepth that is not negative no file system operation at all was made
\* on its path, no metadata read, no resolution, no listing; and the path
\* exclusion precedes the classification: nothing was resolved or listed
\* at the path of an excluded call.
C25_ChecksComeFirst ==
    /\ \A i \in 1..Len(stack) :
          (opts.MaxDepth >= 0 /\ stack[i].depth > opts.MaxDepth) =>
              OpsOn(stack[i].path) = {}
    /\ ExcludedUntouched

\* C25 amended: the depth check is the first statement of the call made for
\* an entry, and the caller has read the metadata of the entry before it
\* makes the call: a call beyond a MaxDepth that is not negative is at depth
\* MaxDepth + 1, that one metadata read is the only file system operation
\* on its path, and it returns nothing; and the path exclusion precedes the
\* classification: nothing was resolved or listed at the path of an
\* excluded call.
C25_MetadataReadThenChecks ==
    /\ \A i \in 1..Len(stack) :
          (opts.MaxDepth >= 0 /\ stack[i].depth > opts.MaxDepth) =>
              /\ stack[i].depth = opts.MaxDepth + 1
              /\ Cardinality(OpsOn(stack[i].path)) = 1
              /\ \A k \in OpsOn(stack[i].path) : ops[k].op = "Info" /\ ops[k].ok
              /\ stack[i].phase # "enter" =>
                    /\ stack[i].phase = "ret"
                    /\ stack[i].rnode = Nil /\ stack[i].rerr = ""
    /\ ExcludedUntouched

\* C25 happens: with MaxDepth 1 the call for r/sub/c.go, at depth 2, has
\* returned at its depth check, the metadata of the entry read before
C25_Witness ==
    /\ opts.MaxDepth = 1 /\ stack # <<>>
    /\ Top.depth = 2 /\ Top.phase = "ret"
    /\ Top.path = <<"r","/","s","u","b","/","c",".","g","o">>
    /\ \E k \in OpsOn(Top.path) : ops[k].op = "Info"

\* C25 happens for the path exclusion: with links followed, the call for a
\* symbolic link whose path a pattern matches has returned
C25_WitnessExcludedLink ==
    /\ opts.FollowLinks /\ stack # <<>>
    /\ Top.info.isSymlink /\ Top.phase = "ret"
    /\ ~depthExceeded(opts, Top.depth)
    /\ MatchesSomePattern(Top.path, opts.ExcludePaths)

----------------------------------------------------------------------------
(* The shape of the result.                                                *)

RECURSIVE PathsOf(_)
\* the Path of every node of a tree, one element for each node
PathsOf(node) ==
    LET RECURSIVE Below(_)
        Below(i) == IF i > Len(node.Children) THEN <<>>
                    ELSE PathsOf(node.Children[i]) \o Below(i + 1)
    IN  <<node.Path>> \o Below(1)

\* C26: a returned tree is a strict tree: the Path of each child is the Path
\* of its parent joined with the Name of the child, the children of a
\* directory node are the surviving entries of its directory in the order
\* of the enumeration, and no two nodes have the same Path, also when
\* followed links lead to the same directory more than once.
C26_StrictTree ==
    Built =>
        /\ \A nd \in ResultNodes : \A i \in 1..Len(nd.node.Children) :
              nd.node.Children[i].Path = Join(nd.node.Path, nd.node.Children[i].Name)
        /\ \A x \in ResultInos :
              IF x.node.Type = Directory THEN ChildrenInOrder(x)
              ELSE x.node.Children = <<>>
        /\ LET paths == PathsOf(result.tree[1])
           IN  \A i, j \in 1..Len(paths) : i # j => paths[i] # paths[j]

\* C26 happens: with links followed the directory r/d is in the tree twice,
\* as r/d and through the link as r/ld, each time with its file f.go, and
\* the root has its six entries in the order of the enumeration
C26_Witness ==
    /\ Built /\ opts.FollowLinks /\ opts.Path = <<"r">>
    /\ Len(result.tree[1].Children) = 6
    /\ result.tree[1].Children[1].Path = <<"r","/","d">>
    /\ result.tree[1].Children[2].Path = <<"r","/","l","d">>
    /\ result.tree[1].Children[1].Type = Directory
    /\ result.tree[1].Children[2].Type = Directory
    /\ result.tree[1].Children[1].Children[1].Path = <<"r","/","d","/","f",".","g","o">>
    /\ result.tree[1].Children[2].Children[1].Path = <<"r","/","l","d","/","f",".","g","o">>

\* C26 happens on a cycle: the tree cut by MaxDepth 2 holds r, r/up and
\* r/up/up, nodes of one directory under three paths
C26_WitnessCycle ==
    /\ Built /\ opts.FollowLinks /\ opts.MaxDepth = 2 /\ opts.Path = <<"r">>
    /\ \E nd \in ResultNodes :
          nd.depth = 2 /\ nd.node.Path = <<"r","/","u","p","/","u","p">>
                       /\ nd.node.Type = Directory

====
